---- MODULE Spec2Model ----
(***************************************************************************)
(* A state-machine model of org_importer.py: the SQLite store managed by   *)
(* DatabaseManager, the roster and organization fetches of RSIApiClient,   *)
(* and the cycle of OrganizationImporter (import_organizations,            *)
(* update_existing_organizations, import_members, reset, sleep).           *)
(*                                                                         *)
(* Row ids are positions in the table sequences: rows are never deleted,   *)
(* and a rollback restores sqlite_sequence together with the rows, so the  *)
(* next AUTOINCREMENT id is always Len(table) + 1.                         *)
(***************************************************************************)
EXTENDS Integers, Sequences, FiniteSets, TLC

\* ------------------------------------------------------------------ bounds

\* Longest roster a source answer carries (all pages together).
MaxRoster == 2

\* Members per roster page (32 in the source, scaled down so that a roster
\* of MaxRoster members spans several pages).
PageSize == 1

\* Cap on the length of member_rank_history (the table grows without bound).
MaxRankHist == 3

\* Cap on the length of organization_history.
MaxOrgHist == 3

\* Last second the clock reaches.
MaxTime == 2

\* Cap on the length of organization_history while listing pages of any
\* content are saved.
MaxListedHist == 2


\* The last page of a sweep of import_organizations, which the program sets
\* at 400 (range(1, 401), line 1218).
MaxPage == 3

\* ------------------------------------------------------------- value sets

\* The NULL of a nullable TIMESTAMP column (timestamps are >= 1).
NULL == 0

Handles == {"nova", "zed"}

Ranks == {"Recruit", "Officer"}

OrgSymbols == {"ABC", "XYZ"}

\* The mutable attributes of an organization, in the order save_organization
\* compares them (the database column names).
Fields == <<"name", "url_image", "url_corpo", "archetype", "language",
            "commitment", "recruitment", "role_play", "member_count">>

FieldSet == {Fields[i] : i \in 1..Len(Fields)}

\* A fetched member (dataclass Member). The display name and the two URLs
\* are a function of the handle here, a member's card as the source shows it.
MemberSnapshots == [symbol : Handles, rank : Ranks]

Rosters == UNION {[1..n -> MemberSnapshots] : n \in 0..MaxRoster}

\* Where an sqlite3.Error other than a constraint violation may strike in the
\* transaction of import_members: 0 is no fault, k the k-th batch step. An
\* error in step 1 leaves the handle map as it was; an error in any later step
\* rolls back as one in step 7 does, so steps 2 to 6 are not drawn.
Faults == {0, 1, 7}

\* -------------------------------------------------------------- variables

VARIABLES
    organizations,         \* table organizations
    organization_history,  \* table organization_history
    members,               \* table members
    member_organization,   \* table member_organization
    member_rank_history,   \* table member_rank_history
    now,                   \* what CURRENT_TIMESTAMP reads (Tick advances it)
    pc,                    \* where run_import_cycle / run_continuous_import stands
    orgs_for_members,      \* import_members: the organizations still to process
    all_member_symbols,    \* import_members: handle -> member id (0: no entry)
    result,                \* import_members: what get_organization_members
                           \* returned, as ResultOf keeps it
    org,                   \* the organization last passed to save_organization
    outcome,               \* how the last store operation of the phase ended,
                           \* how many history rows it appended and how many
                           \* associations import_members had planned to insert
    request,               \* _make_request: the attempt it is at, what the
                           \* source answered so far, the waits, what it returned
    connection,            \* the sqlite3 connection: whether a transaction is
                           \* open, whether a BEGIN was refused because one was
    sweep,                 \* import_organizations: the sort order and the page
                           \* its loops are at, the organizations of the page
                           \* still to save, how the last sort order ended
    orgs_to_update         \* update_existing_organizations: the organizations
                           \* still to refresh

store == <<organizations, organization_history, members, member_organization,
           member_rank_history>>

vars == <<organizations, organization_history, members, member_organization,
          member_rank_history, now, pc, orgs_for_members, all_member_symbols,
          result, org, outcome, request, connection,
          sweep, orgs_to_update>>

\* ---------------------------------------------------------------- helpers

Max(S) == CHOOSE x \in S : \A y \in S : y <= x

RECURSIVE SetToSeq(_)
\* The elements of a finite set of integers in ascending order.
SetToSeq(S) ==
    IF S = {} THEN <<>>
    ELSE LET m == CHOOSE x \in S : \A y \in S : x <= y
         IN <<m>> \o SetToSeq(S \ {m})

\* No fetch result is held (get_organization_members returned None).
NoResult == [ok |-> FALSE, ranks |-> [h \in Handles |-> {}],
             duplicates |-> {}, page_errors |-> FALSE]

\* No entry of the handle map.
NoSymbols == [h \in Handles |-> 0]

\* No store operation has run yet.
NoOutcome == [op |-> "none", symbol |-> "", status |-> "none", error |-> "none",
              history_rows |-> 0, associations_to_insert |-> 0]

\* ------------------------------------------------------------ store reads

\* get_organizations_for_member_update: ids with members_updated = 0 and
\* is_active = 1, ORDER BY id ASC.
get_organizations_for_member_update ==
    SetToSeq({i \in 1..Len(organizations) :
                 /\ ~organizations[i].members_updated
                 /\ organizations[i].is_active})

\* get_all_member_symbols: {symbol: id} of the members table.
get_all_member_symbols ==
    [h \in Handles |->
        IF \E i \in 1..Len(members) : members[i].symbol = h
        THEN Max({i \in 1..Len(members) : members[i].symbol = h})
        ELSE 0]

\* get_active_org_members_with_rank: member_id -> (rank, association id) over
\* the active rows of the organization; a dict keeps the last row of a key.
get_active_org_members_with_rank(org_id) ==
    LET rows == {i \in 1..Len(member_organization) :
                    /\ member_organization[i].organization_id = org_id
                    /\ member_organization[i].is_active}
        last(mid) == Max({i \in rows : member_organization[i].member_id = mid})
    IN {[member_id |-> mid, rank |-> member_organization[last(mid)].rank,
         id |-> last(mid)] :
            mid \in {member_organization[i].member_id : i \in rows}}

\* ------------------------------------------------------------------ fetch

\* The page a roster position lies on, and the number of pages
\* (ceil(total_rows / pagesize)).
PageOf(i) == ((i - 1) \div PageSize) + 1

NumPages(n) == (n + PageSize - 1) \div PageSize

RECURSIVE PagesKept(_, _, _)
\* The members of the pages that were retrieved, in page order: a later page
\* whose request failed is skipped (logged, then `continue`).
PagesKept(roster, failed, i) ==
    IF i > Len(roster) THEN <<>>
    ELSE (IF PageOf(i) \in failed THEN <<>> ELSE <<roster[i]>>)
         \o PagesKept(roster, failed, i + 1)

\* get_organization_members when the first page is retrieved: the members of
\* every retrieved page (the total the first page reports is only logged).
get_organization_members(roster, failed) == PagesKept(roster, failed, 1)

\* What is kept of a retrieved roster once its organization is processed:
\* the ranks fetched for each handle, the handles that came more than once,
\* and whether the request of a later page failed.
ResultOf(api_members, failed) ==
    [ok |-> TRUE,
     ranks |-> [h \in Handles |->
                  {api_members[i].rank :
                      i \in {j \in 1..Len(api_members) : api_members[j].symbol = h}}],
     duplicates |-> {h \in Handles :
                       \E i, j \in 1..Len(api_members) :
                           /\ i # j
                           /\ api_members[i].symbol = h
                           /\ api_members[j].symbol = h},
     page_errors |-> failed # {}]

\* ------------------------------------------------- import_members: the plan

EmptyPlan ==
    [members_to_insert |-> <<>>, members_to_update |-> <<>>,
     associations_to_insert |-> <<>>, associations_to_update |-> <<>>,
     rank_history_to_insert |-> <<>>, processed_member_ids |-> {}]

\* One pass of the loop over api_members (lines 1298-1330).
PlanMember(plan, api_member, symbols, active, org_id) ==
    IF symbols[api_member.symbol] # 0
    THEN LET member_id == symbols[api_member.symbol]
             association_data == {a \in active : a.member_id = member_id}
             row == [member_id |-> member_id, organization_id |-> org_id,
                     rank |-> api_member.rank]
             known == [plan EXCEPT
                         !.members_to_update =
                             Append(@, [id |-> member_id,
                                        symbol |-> api_member.symbol]),
                         !.processed_member_ids = @ \cup {member_id}]
         IN IF association_data = {}
            THEN [known EXCEPT
                    !.associations_to_insert = Append(@, row),
                    !.rank_history_to_insert = Append(@, row)]
            ELSE LET a == CHOOSE x \in association_data : TRUE
                 IN IF a.rank # api_member.rank
                    THEN [known EXCEPT
                            !.associations_to_update =
                                Append(@, [rank |-> api_member.rank, id |-> a.id]),
                            !.rank_history_to_insert = Append(@, row)]
                    ELSE known
    ELSE [plan EXCEPT !.members_to_insert = Append(@, api_member)]

RECURSIVE BuildPlan(_, _, _, _, _, _)
\* The lists of import_members after the loop over api_members.
BuildPlan(plan, api_members, i, symbols, active, org_id) ==
    IF i > Len(api_members) THEN plan
    ELSE BuildPlan(PlanMember(plan, api_members[i], symbols, active, org_id),
                   api_members, i + 1, symbols, active, org_id)

\* departing_member_ids (lines 1333-1336): the active members not processed.
DepartingMemberIds(plan, active) ==
    {a.member_id : a \in active} \ plan.processed_member_ids

\* ------------------------------------------------------- batch operations

\* A members table without its UNIQUE constraint: the variant of
\* MemberSymbolTaken under which NaturalKeysUniqueAndImmutable must fail.
NoMemberSymbolTaken(rows, symbol) == FALSE

\* UNIQUE(symbol) of members: a row with this symbol is already there.
MemberSymbolTaken(rows, symbol) ==
    \E j \in 1..Len(rows) : rows[j].symbol = symbol

\* A member_organization table without its UNIQUE constraint: the variant of
\* UniqueAssociationViolated under which AtMostOneActiveMembership must fail.
NoUniqueAssociation(rows, member_id, org_id, is_active, self) == FALSE

\* UNIQUE(member_id, organization_id, is_active) of member_organization:
\* a row other than `self` carries the same triple.
UniqueAssociationViolated(rows, member_id, org_id, is_active, self) ==
    \E j \in 1..Len(rows) :
        /\ j # self
        /\ rows[j].member_id = member_id
        /\ rows[j].organization_id = org_id
        /\ rows[j].is_active = is_active

RECURSIVE InsertMembers(_, _, _)
\* batch_insert_members, the executemany: rows go in one by one and the
\* first UNIQUE violation raises.
InsertMembers(rows, members_to_insert, i) ==
    IF i > Len(members_to_insert) THEN [rows |-> rows, raised |-> FALSE]
    ELSE IF MemberSymbolTaken(rows, members_to_insert[i].symbol)
         THEN [rows |-> rows, raised |-> TRUE]
         ELSE InsertMembers(
                  Append(rows, [symbol |-> members_to_insert[i].symbol,
                                name |-> members_to_insert[i].symbol]),
                  members_to_insert, i + 1)

\* batch_insert_members, the SELECT ... WHERE symbol IN (...): symbol -> id
\* of the rows just inserted (0: no entry).
NewlyInsertedIds(rows, members_to_insert) ==
    [h \in Handles |->
        IF /\ \E i \in 1..Len(members_to_insert) : members_to_insert[i].symbol = h
           /\ \E j \in 1..Len(rows) : rows[j].symbol = h
        THEN Max({j \in 1..Len(rows) : rows[j].symbol = h})
        ELSE 0]

RECURSIVE NewMemberRows(_, _, _, _)
\* Lines 1351-1357: the association and rank-history entries of the members
\* just inserted (`if new_id:`).
NewMemberRows(members_to_insert, newly_inserted_ids, org_id, i) ==
    IF i > Len(members_to_insert) THEN <<>>
    ELSE (IF newly_inserted_ids[members_to_insert[i].symbol] # 0
          THEN <<[member_id |-> newly_inserted_ids[members_to_insert[i].symbol],
                  organization_id |-> org_id,
                  rank |-> members_to_insert[i].rank]>>
          ELSE <<>>)
         \o NewMemberRows(members_to_insert, newly_inserted_ids, org_id, i + 1)

RECURSIVE batch_update_members(_, _, _)
\* UPDATE members SET name = ... WHERE id = ?, once per list entry.
batch_update_members(rows, members_to_update, i) ==
    IF i > Len(members_to_update) THEN rows
    ELSE batch_update_members(
             [j \in 1..Len(rows) |->
                 IF j = members_to_update[i].id
                 THEN [rows[j] EXCEPT !.name = members_to_update[i].symbol]
                 ELSE rows[j]],
             members_to_update, i + 1)

RECURSIVE batch_insert_associations(_, _, _)
\* The executemany of INSERT INTO member_organization: rows go in one by one
\* (is_active defaults to 1, left_at to NULL); the first UNIQUE violation
\* ends the statement and is only logged, the rows before it stay.
batch_insert_associations(rows, associations_to_insert, i) ==
    IF i > Len(associations_to_insert) THEN rows
    ELSE LET a == associations_to_insert[i]
         IN IF UniqueAssociationViolated(rows, a.member_id, a.organization_id,
                                         TRUE, 0)
            THEN rows
            ELSE batch_insert_associations(
                     Append(rows, [member_id |-> a.member_id,
                                   organization_id |-> a.organization_id,
                                   rank |-> a.rank, is_active |-> TRUE,
                                   left_at |-> NULL]),
                     associations_to_insert, i + 1)

RECURSIVE batch_update_associations_rank(_, _, _)
\* UPDATE member_organization SET rank = ? WHERE id = ?, once per entry.
batch_update_associations_rank(rows, associations_to_update, i) ==
    IF i > Len(associations_to_update) THEN rows
    ELSE batch_update_associations_rank(
             [j \in 1..Len(rows) |->
                 IF j = associations_to_update[i].id
                 THEN [rows[j] EXCEPT !.rank = associations_to_update[i].rank]
                 ELSE rows[j]],
             associations_to_update, i + 1)

\* An insert that overwrites the table: the variant of
\* batch_insert_rank_history under which HistoriesAppendOnly must fail.
ReplaceRankHistory(rows, rank_history_to_insert) == rank_history_to_insert

\* INSERT INTO member_rank_history, once per entry.
batch_insert_rank_history(rows, rank_history_to_insert) ==
    rows \o rank_history_to_insert

\* The rows one departure's UPDATE matches.
DepartureTargets(rows, org_id, member_id) ==
    {j \in 1..Len(rows) : /\ rows[j].organization_id = org_id
                          /\ rows[j].member_id = member_id
                          /\ rows[j].is_active}

\* batch_mark_departures raises: setting is_active = 0 on a matched row
\* collides with an inactive row of the same member and organization.
DeparturesRaise(rows, departing_member_ids, org_id) ==
    \E m \in departing_member_ids :
        \/ Cardinality(DepartureTargets(rows, org_id, m)) > 1
        \/ \E j \in DepartureTargets(rows, org_id, m) :
               UniqueAssociationViolated(rows, m, org_id, FALSE, j)

\* A departure that forgets left_at: the variant of batch_mark_departures
\* under which ActiveIffNotLeft must fail.
MarkDeparturesWithoutLeftAt(rows, departing_member_ids, org_id, ts) ==
    [j \in 1..Len(rows) |->
        IF \E m \in departing_member_ids : j \in DepartureTargets(rows, org_id, m)
        THEN [rows[j] EXCEPT !.is_active = FALSE]
        ELSE rows[j]]

\* batch_mark_departures: is_active = 0, left_at = CURRENT_TIMESTAMP on the
\* active rows of the departing members.
batch_mark_departures(rows, departing_member_ids, org_id, ts) ==
    [j \in 1..Len(rows) |->
        IF \E m \in departing_member_ids : j \in DepartureTargets(rows, org_id, m)
        THEN [rows[j] EXCEPT !.is_active = FALSE, !.left_at = ts]
        ELSE rows[j]]

\* A mark that retires the organization: the variant of
\* mark_organization_members_updated under which OrganizationsNeverRetired
\* must fail.
MarkOrganizationInactive(rows, org_id) ==
    [j \in 1..Len(rows) |->
        IF j = org_id THEN [rows[j] EXCEPT !.members_updated = TRUE,
                                           !.is_active = FALSE]
        ELSE rows[j]]

\* A mark that leaves the flag as it is: the variant of
\* mark_organization_members_updated under which StaleRostersFetchedOnce must
\* fail.
MarkNothingUpdated(rows, org_id) == rows

\* mark_organization_members_updated: members_updated = 1 WHERE id = ?.
mark_organization_members_updated(rows, org_id) ==
    [j \in 1..Len(rows) |->
        IF j = org_id THEN [rows[j] EXCEPT !.members_updated = TRUE]
        ELSE rows[j]]

\* The steps of the transaction of import_members (lines 1341-1379) on a
\* working copy of the tables, each step run on the result of the one before:
\* the tables after each step, which steps touch the store (a step whose list
\* is empty returns before it does) and which raise a constraint violation.
TransactionSteps(plan, departing_member_ids, org_id) ==
    LET step1 == InsertMembers(members, plan.members_to_insert, 1)
        newly_inserted_ids ==
            IF plan.members_to_insert = <<>> \/ step1.raised
            THEN NoSymbols
            ELSE NewlyInsertedIds(step1.rows, plan.members_to_insert)
        added == NewMemberRows(plan.members_to_insert, newly_inserted_ids,
                               org_id, 1)
        associations_to_insert == plan.associations_to_insert \o added
        rank_history_to_insert == plan.rank_history_to_insert \o added
        step3 == batch_insert_associations(member_organization,
                                           associations_to_insert, 1)
        step4 == batch_update_associations_rank(step3,
                                                plan.associations_to_update, 1)
    IN [touches |-> <<plan.members_to_insert # <<>>,
                      plan.members_to_update # <<>>,
                      associations_to_insert # <<>>,
                      plan.associations_to_update # <<>>,
                      rank_history_to_insert # <<>>,
                      departing_member_ids # {},
                      TRUE>>,
        raises |-> <<plan.members_to_insert # <<>> /\ step1.raised,
                     FALSE, FALSE, FALSE, FALSE,
                     /\ departing_member_ids # {}
                     /\ DeparturesRaise(step4, departing_member_ids, org_id),
                     FALSE>>,
        newly_inserted_ids |-> newly_inserted_ids,
        associations_to_insert |-> associations_to_insert,
        organizations |-> mark_organization_members_updated(organizations, org_id),
        members |-> batch_update_members(step1.rows, plan.members_to_update, 1),
        member_organization |->
            batch_mark_departures(step4, departing_member_ids, org_id, now),
        member_rank_history |->
            batch_insert_rank_history(member_rank_history, rank_history_to_insert)]

\* Lines 1286-1379 for one retrieved roster: the active associations are
\* read, the plan is built and the transaction's steps are run.
Reconciliation(api_members, org_id) ==
    LET active_org_members == get_active_org_members_with_rank(org_id)
        plan == BuildPlan(EmptyPlan, api_members, 1, all_member_symbols,
                          active_org_members, org_id)
    IN TransactionSteps(plan, DepartingMemberIds(plan, active_org_members),
                        org_id)

\* The first step that fails: a step raises by its constraint, or because the
\* fault strikes it while it touches the store (0: no step fails).
FirstFailure(steps, fault) ==
    LET failing == {k \in 1..7 :
                      \/ steps.raises[k]
                      \/ steps.touches[k] /\ fault = k}
    IN IF failing = {} THEN 0
       ELSE CHOOSE k \in failing : \A j \in failing : k <= j

\* The transaction of import_members (lines 1341-1384) under a fault: it
\* commits the working copy, or the first failing step rolls everything back.
\* The handle map is updated right after step 1 (line 1349) and a rollback
\* does not restore it.
Transaction(steps, fault) ==
    LET k == FirstFailure(steps, fault)
    IN [committed |-> k = 0,
        error |-> IF k = 0 THEN "none"
                  ELSE IF steps.raises[k] THEN "constraint" ELSE "fault",
        all_member_symbols |->
            IF k = 1 THEN all_member_symbols
            ELSE [h \in Handles |->
                     IF steps.newly_inserted_ids[h] # 0
                     THEN steps.newly_inserted_ids[h]
                     ELSE all_member_symbols[h]]]

\* ------------------------------------------- the connection's transactions

\* The connection as connect() opens it (line 123): no transaction open.
NoTransaction == [in_transaction |-> FALSE, begin_refused |-> FALSE]

\* One statement on the connection. sqlite3.connect with its default
\* isolation level opens a transaction before an INSERT or UPDATE when none
\* is open; a SELECT opens none; BEGIN TRANSACTION is refused ("cannot start
\* a transaction within a transaction") when one is open; commit() and
\* rollback() close the open one and do nothing when none is.
Execute(conn, statement) ==
    CASE statement = "BEGIN" ->
             [in_transaction |-> TRUE,
              begin_refused |-> conn.begin_refused \/ conn.in_transaction]
      [] statement = "WRITE" -> [conn EXCEPT !.in_transaction = TRUE]
      [] statement \in {"COMMIT", "ROLLBACK"} ->
             [conn EXCEPT !.in_transaction = FALSE]
      [] OTHER -> conn

\* The connection after the statements from the i-th on, in order.
RECURSIVE Run(_, _, _)
Run(conn, statements, i) ==
    IF i > Len(statements) THEN conn
    ELSE Run(Execute(conn, statements[i]), statements, i + 1)

\* What save_organization executes: the SELECT by symbol, its INSERT or
\* UPDATE, then commit() (line 472) or, on an sqlite3.Error, rollback()
\* (line 477).
SaveStatements(fault) ==
    IF fault THEN <<"SELECT", "WRITE", "ROLLBACK">>
    ELSE <<"SELECT", "WRITE", "COMMIT">>

\* What the steps of the transaction of import_members execute from step i
\* on, k being the first step that fails (0: none). A step whose list is
\* empty executes nothing; step 7, mark_organization_members_updated,
\* commits by itself (line 617) or rolls back and raises again (line 621);
\* then commit() (line 1378) or, after any exception, rollback() (line 1383).
RECURSIVE StepStatements(_, _, _)
StepStatements(steps, k, i) ==
    IF i > 7 THEN <<"COMMIT">>
    ELSE IF i = k
         THEN IF i = 7 THEN <<"WRITE", "ROLLBACK", "ROLLBACK">>
              ELSE <<"WRITE", "ROLLBACK">>
         ELSE (IF i = 7 THEN <<"WRITE", "COMMIT">>
               ELSE IF steps.touches[i] THEN <<"WRITE">> ELSE <<>>)
                  \o StepStatements(steps, k, i + 1)

\* An import_members that never rolls back: the variant of
\* ImportMembersStatements under which NoTransactionAcrossEntities must fail.
ImportMembersStatementsNoRollback(steps, fault) ==
    <<"SELECT", "BEGIN">>
        \o SelectSeq(StepStatements(steps, FirstFailure(steps, fault), 1),
                     LAMBDA statement : statement # "ROLLBACK")

\* What one pass of the loop of import_members executes once the roster is
\* retrieved: the SELECT of the active associations (line 1277), BEGIN
\* TRANSACTION (line 1342) and the steps.
ImportMembersStatements(steps, fault) ==
    <<"SELECT", "BEGIN">>
        \o StepStatements(steps, FirstFailure(steps, fault), 1)

\* What a phase that ends by an exception executed last: the UPDATE of
\* reset_members_updated_flag and its rollback() (line 632), or a read.
RaiseStatements(op) ==
    IF op = "reset_members_updated_flag" THEN <<"WRITE", "ROLLBACK">>
    ELSE <<"SELECT">>

\* ------------------------------------------------------ save_organization

\* The attribute values the source shows: every attribute at "50", but the
\* name, the member count or both at "55".
AttrChoices ==
    {[f \in FieldSet |-> IF f \in changed THEN "55" ELSE "50"] :
        changed \in SUBSET {"name", "member_count"}}

\* A fetched organization (dataclass Organization).
Snapshots == [symbol : OrgSymbols, attrs : AttrChoices]

BaseAttrs == [f \in FieldSet |-> "50"]

\* No organization has been passed to save_organization in this phase.
NoOrg == [symbol |-> "", attrs |-> BaseAttrs]

\* A description that names the columns: the variant of Label under which
\* ChangeDescriptionListsDifferences must fail.
ColumnName(f) == f

\* The label save_organization gives each attribute in a change description.
Label(f) ==
    CASE f = "name" -> "Name"
      [] f = "url_image" -> "Image URL"
      [] f = "url_corpo" -> "Org URL"
      [] f = "archetype" -> "Archetype"
      [] f = "language" -> "Language"
      [] f = "commitment" -> "Commitment"
      [] f = "recruitment" -> "Recruitment"
      [] f = "role_play" -> "Roleplay"
      [] f = "member_count" -> "Member count"

\* A comparison that finds every attribute changed: the variant of Differs
\* under which UnchangedSnapshotTouchesLastUpdated must fail.
AlwaysDiffers(snapshot, existing_org, f) == TRUE

\* A comparison that overlooks the member count: the variant of Differs under
\* which SaveOrganizationIdempotent must fail.
DiffersButForMemberCount(snapshot, existing_org, f) ==
    f # "member_count" /\ snapshot.attrs[f] # existing_org.attrs[f]

\* `org.x != existing_org['x']` of one attribute.
Differs(snapshot, existing_org, f) == snapshot.attrs[f] # existing_org.attrs[f]

RECURSIVE Changes(_, _, _)
\* The list `changes` (lines 408-433): one "Label: old -> new" entry per
\* differing attribute, in the order of the comparisons.
Changes(snapshot, existing_org, i) ==
    IF i > Len(Fields) THEN <<>>
    ELSE (IF Differs(snapshot, existing_org, Fields[i])
          THEN <<<<Label(Fields[i]), existing_org.attrs[Fields[i]],
                   snapshot.attrs[Fields[i]]>>>>
          ELSE <<>>)
         \o Changes(snapshot, existing_org, i + 1)

\* A save that never finds the organization: the variant of ExistingOrg under
\* which CreationRecordedOnce must fail.
NeverExistingOrg(rows, symbol) == 0

\* SELECT * FROM organizations WHERE symbol = ?: the id of the row, 0 if none.
ExistingOrg(rows, symbol) ==
    IF \E i \in 1..Len(rows) : rows[i].symbol = symbol
    THEN CHOOSE i \in 1..Len(rows) : rows[i].symbol = symbol
    ELSE 0

\* A history row that keeps the attributes but not the description: the
\* variant of HistoryRow under which MemberCountChangeRecorded must fail.
HistoryRowUndescribed(org_id, snapshot, change_description) ==
    [organization_id |-> org_id, symbol |-> snapshot.symbol,
     attrs |-> snapshot.attrs, change_description |-> <<>>]

\* A history row that keeps the attributes the organization had before the
\* save: the variant of HistoryRow under which LatestHistoryMatchesOrganization
\* must fail.
HistoryRowOfStoredAttributes(org_id, snapshot, change_description) ==
    [organization_id |-> org_id, symbol |-> snapshot.symbol,
     attrs |-> IF org_id <= Len(organizations)
               THEN organizations[org_id].attrs
               ELSE snapshot.attrs,
     change_description |-> change_description]

\* A row of organization_history.
HistoryRow(org_id, snapshot, change_description) ==
    [organization_id |-> org_id, symbol |-> snapshot.symbol,
     attrs |-> snapshot.attrs, change_description |-> change_description]

\* A save that only marks a persisted organization as checked: the variant
\* of save_organization under which SaveStoresSnapshot must fail.
SaveMarksCheckedOnly(snapshot) ==
    LET org_id == ExistingOrg(organizations, snapshot.symbol)
    IN IF org_id = 0
       THEN [organizations |->
                 Append(organizations,
                        [symbol |-> snapshot.symbol, attrs |-> snapshot.attrs,
                         members_updated |-> FALSE, is_active |-> TRUE,
                         last_updated |-> now]),
             organization_history |->
                 Append(organization_history,
                        HistoryRow(Len(organizations) + 1, snapshot,
                                   <<<<"Organization created">>>>))]
       ELSE [organizations |->
                 [organizations EXCEPT ![org_id].last_updated = now],
             organization_history |-> organization_history]

\* save_organization up to its commit: the two tables as the call leaves them.
save_organization(snapshot) ==
    LET org_id == ExistingOrg(organizations, snapshot.symbol)
    IN IF org_id = 0
       THEN [organizations |->
                 Append(organizations,
                        [symbol |-> snapshot.symbol, attrs |-> snapshot.attrs,
                         members_updated |-> FALSE, is_active |-> TRUE,
                         last_updated |-> now]),
             organization_history |->
                 Append(organization_history,
                        HistoryRow(Len(organizations) + 1, snapshot,
                                   <<<<"Organization created">>>>))]
       ELSE LET changes == Changes(snapshot, organizations[org_id], 1)
            IN IF changes # <<>>
               THEN [organizations |->
                         [organizations EXCEPT ![org_id].attrs = snapshot.attrs,
                                               ![org_id].last_updated = now],
                     organization_history |->
                         Append(organization_history,
                                HistoryRow(org_id, snapshot, changes))]
               ELSE [organizations |->
                         [organizations EXCEPT ![org_id].last_updated = now],
                     organization_history |-> organization_history]

\* One call of save_organization from a phase of the cycle: it commits, or an
\* sqlite3.Error rolls it back (line 477) and the caller logs it and goes on.
SaveOrganization(snapshot, fault) ==
    LET saved == save_organization(snapshot)
    IN /\ fault \/ Len(saved.organization_history) <= MaxOrgHist
       /\ org' = snapshot
       /\ IF fault
          THEN /\ UNCHANGED <<organizations, organization_history>>
               /\ outcome' = [op |-> "save_organization",
                              symbol |-> snapshot.symbol,
                              status |-> "raised", error |-> "fault",
                              history_rows |-> 0, associations_to_insert |-> 0]
          ELSE /\ organizations' = saved.organizations
               /\ organization_history' = saved.organization_history
               /\ outcome' = [op |-> "save_organization",
                              symbol |-> snapshot.symbol,
                              status |-> "returned", error |-> "none",
                              history_rows |->
                                  Len(saved.organization_history)
                                      - Len(organization_history),
                              associations_to_insert |-> 0]
       /\ connection' = Run(connection, SaveStatements(fault), 1)
       /\ UNCHANGED <<members, member_organization, member_rank_history, now,
                      orgs_for_members, all_member_symbols, result>>

\* ---------------------------------------------------------- _make_request

\* The default of the parameter max_retries.
max_retries == 5

\* What one POST may end with: a valid JSON answer, a status other than 200,
\* an empty body, a body that is no JSON, the code ErrApiThrottled, or an
\* aiohttp.ClientError.
Answers ==
    {"ok", "http_error", "empty_body", "undecodable", "throttled",
     "client_error"}

\* No request is running.
NoRequest ==
    [state |-> "idle", attempt |-> 0, answers |-> <<>>, waits |-> <<>>,
     returned |-> "nothing"]

\* A backoff that does not tell throttling from an error: the variant of
\* Backoff under which ThrottlingBackoff must fail.
FlatBackoff(answer, attempt) == 2 ^ attempt

\* The seconds of time.sleep after a failed attempt (lines 936-962).
Backoff(answer, attempt) ==
    IF answer = "throttled" THEN 5 * (2 ^ attempt) ELSE 2 ^ attempt

\* A caller (get_organizations, get_organization_members) calls
\* _make_request.
MakeRequest ==
    /\ request.state \in {"idle", "returned"}
    /\ request' = [NoRequest EXCEPT !.state = "attempting"]
    /\ UNCHANGED <<store, now, pc, orgs_for_members, all_member_symbols,
                   result, org, outcome>>
    /\ UNCHANGED connection
    /\ UNCHANGED sweep
    /\ UNCHANGED orgs_to_update

\* One pass of the loop `for attempt in range(max_retries)`: the POST gets a
\* valid answer, which is returned, or fails, and the loop sleeps and goes
\* on.
MakeRequestAttempt ==
    /\ request.state = "attempting"
    /\ request.attempt < max_retries
    /\ \E answer \in Answers :
          request' =
              IF answer = "ok"
              THEN [request EXCEPT !.state = "returned",
                                   !.answers = Append(@, answer),
                                   !.returned = "data"]
              ELSE [request EXCEPT !.attempt = @ + 1,
                                   !.answers = Append(@, answer),
                                   !.waits =
                                       Append(@, Backoff(answer,
                                                         request.attempt))]
    /\ UNCHANGED <<store, now, pc, orgs_for_members, all_member_symbols,
                   result, org, outcome>>
    /\ UNCHANGED connection
    /\ UNCHANGED sweep
    /\ UNCHANGED orgs_to_update

\* A loop that starts over when its attempts are used up: the variant of
\* MakeRequestGiveUp under which RequestTerminates must fail.
MakeRequestStartsOver ==
    /\ request.state = "attempting"
    /\ request.attempt = max_retries
    /\ request' = [NoRequest EXCEPT !.state = "attempting"]
    /\ UNCHANGED <<store, now, pc, orgs_for_members, all_member_symbols,
                   result, org, outcome>>
    /\ UNCHANGED connection
    /\ UNCHANGED sweep
    /\ UNCHANGED orgs_to_update

\* The loop is over: None is returned (lines 963-964).
MakeRequestGiveUp ==
    /\ request.state = "attempting"
    /\ request.attempt = max_retries
    /\ request' = [request EXCEPT !.state = "returned", !.returned = "None"]
    /\ UNCHANGED <<store, now, pc, orgs_for_members, all_member_symbols,
                   result, org, outcome>>
    /\ UNCHANGED connection
    /\ UNCHANGED sweep
    /\ UNCHANGED orgs_to_update

\* ------------------------------------------------------- the cycle's steps

\* import_organizations: one organization of a fetched page is saved.
ImportOrganizationsSave ==
    /\ pc = "import_organizations"
    /\ \E snapshot \in Snapshots, fault \in BOOLEAN :
          SaveOrganization(snapshot, fault)
    /\ UNCHANGED pc
    /\ UNCHANGED request
    /\ UNCHANGED sweep
    /\ UNCHANGED orgs_to_update

\* import_organizations returns: the last sort order's sweep ended.
ImportOrganizationsEnd ==
    /\ pc = "import_organizations"
    /\ pc' = "update_existing_organizations"
    /\ org' = NoOrg
    /\ outcome' = NoOutcome
    /\ UNCHANGED <<store, now, orgs_for_members, all_member_symbols, result>>
    /\ UNCHANGED request
    /\ UNCHANGED connection
    /\ UNCHANGED sweep
    /\ UNCHANGED orgs_to_update

\* update_existing_organizations: the first organization of a search result
\* is saved.
UpdateExistingSave ==
    /\ pc = "update_existing_organizations"
    /\ organizations # <<>>
    /\ \E snapshot \in Snapshots, fault \in BOOLEAN :
          SaveOrganization(snapshot, fault)
    /\ UNCHANGED pc
    /\ UNCHANGED request
    /\ UNCHANGED sweep
    /\ UNCHANGED orgs_to_update

\* update_existing_organizations returns: the loop over orgs_to_update ended.
UpdateExistingEnd ==
    /\ pc = "update_existing_organizations"
    /\ pc' = "import_members"
    /\ org' = NoOrg
    /\ outcome' = NoOutcome
    /\ UNCHANGED <<store, now, orgs_for_members, all_member_symbols, result>>
    /\ UNCHANGED request
    /\ UNCHANGED connection
    /\ UNCHANGED sweep
    /\ UNCHANGED orgs_to_update

\* import_members up to its loop (lines 1255-1267).
ImportMembersBegin ==
    /\ pc = "import_members"
    /\ orgs_for_members' = get_organizations_for_member_update
    /\ all_member_symbols' = get_all_member_symbols
    /\ pc' = "members_loop"
    /\ connection' = Run(connection, <<"SELECT", "SELECT">>, 1)
    /\ UNCHANGED <<store, now, result, org, outcome>>
    /\ UNCHANGED request
    /\ UNCHANGED sweep
    /\ UNCHANGED orgs_to_update

\* One pass of the loop of import_members when the roster's first page cannot
\* be retrieved (lines 1281-1283): the organization is skipped.
ImportMembersSkip ==
    /\ pc = "members_loop"
    /\ orgs_for_members # <<>>
    /\ result' = NoResult
    /\ outcome' = [op |-> "import_members",
                   symbol |-> organizations[Head(orgs_for_members)].symbol,
                   status |-> "skipped", error |-> "none", history_rows |-> 0,
                   associations_to_insert |-> 0]
    /\ orgs_for_members' = Tail(orgs_for_members)
    /\ connection' = Run(connection, <<"SELECT">>, 1)
    /\ UNCHANGED <<store, now, pc, all_member_symbols, org>>
    /\ UNCHANGED request
    /\ UNCHANGED sweep
    /\ UNCHANGED orgs_to_update

\* One pass of the loop of import_members when the first page is retrieved
\* (lines 1270-1391): any roster, with any of its later pages failing
\* (ErrInvalidOrganization is the empty roster), the plan and its transaction.
ImportMembersReconcileOf(rosters) ==
    /\ pc = "members_loop"
    /\ orgs_for_members # <<>>
    /\ \E roster \in rosters :
         \E failed \in SUBSET (2..NumPages(Len(roster))) :
          \E org_id \in {Head(orgs_for_members)} :
           \E api_members \in {get_organization_members(roster, failed)} :
            \E steps \in {Reconciliation(api_members, org_id)} :
               \* rosters that would take the table past its cap are not drawn
               /\ Len(steps.member_rank_history) <= MaxRankHist
               /\ result' = ResultOf(api_members, failed)
               /\ \E fault \in Faults :
                    \E txn \in {Transaction(steps, fault)} :
                       /\ all_member_symbols' = txn.all_member_symbols
                       /\ connection' =
                              Run(connection,
                                  ImportMembersStatements(steps, fault), 1)
                       /\ IF txn.committed
                          THEN /\ organizations' = steps.organizations
                               /\ members' = steps.members
                               /\ member_organization' = steps.member_organization
                               /\ member_rank_history' = steps.member_rank_history
                          ELSE UNCHANGED <<organizations, members,
                                           member_organization,
                                           member_rank_history>>
                       /\ outcome' = [op |-> "import_members",
                                      symbol |-> organizations[org_id].symbol,
                                      status |-> IF txn.committed THEN "committed"
                                                 ELSE "rolled_back",
                                      error |-> txn.error,
                                      history_rows |->
                                          IF txn.committed
                                          THEN Len(steps.member_rank_history)
                                                   - Len(member_rank_history)
                                          ELSE 0,
                                      associations_to_insert |->
                                          Len(steps.associations_to_insert)]
    /\ orgs_for_members' = Tail(orgs_for_members)
    /\ UNCHANGED <<organization_history, now, pc, org>>
    /\ UNCHANGED request
    /\ UNCHANGED sweep
    /\ UNCHANGED orgs_to_update

\* The pass over the rosters of up to MaxRoster members.
ImportMembersReconcile == ImportMembersReconcileOf(Rosters)

\* The empty roster and the roster of nova alone.
ShortRosters == {<<>>, <<[symbol |-> "nova", rank |-> "Recruit"]>>}

\* The pass over a roster of at most one member.
ImportMembersReconcileShort == ImportMembersReconcileOf(ShortRosters)

\* import_members returns: the loop over orgs_for_members ended.
ImportMembersEnd ==
    /\ pc = "members_loop"
    /\ orgs_for_members = <<>>
    /\ pc' = "reset_members_updated_flag"
    /\ all_member_symbols' = NoSymbols
    /\ result' = NoResult
    /\ outcome' = NoOutcome
    /\ UNCHANGED <<store, now, orgs_for_members, org>>
    /\ UNCHANGED request
    /\ UNCHANGED connection
    /\ UNCHANGED sweep
    /\ UNCHANGED orgs_to_update

\* reset_members_updated_flag: members_updated = 0 on every organization.
ResetMembersUpdatedFlag ==
    /\ pc = "reset_members_updated_flag"
    /\ organizations' = [i \in 1..Len(organizations) |->
                            [organizations[i] EXCEPT !.members_updated = FALSE]]
    /\ pc' = "sleep"
    /\ UNCHANGED <<organization_history, members, member_organization,
                   member_rank_history, now, orgs_for_members,
                   all_member_symbols, result, org, outcome>>
    /\ connection' = Run(connection, <<"WRITE", "COMMIT">>, 1)
    /\ UNCHANGED request
    /\ UNCHANGED sweep
    /\ UNCHANGED orgs_to_update

\* run_continuous_import: the sleep between two cycles ends.
Sleep ==
    /\ pc = "sleep"
    /\ pc' = "import_organizations"
    /\ UNCHANGED <<store, now, orgs_for_members, all_member_symbols, result,
                   org, outcome>>
    /\ UNCHANGED request
    /\ UNCHANGED connection
    /\ UNCHANGED sweep
    /\ UNCHANGED orgs_to_update

\* -------------------------------------- import_organizations as its loops

\* The default sort_methods of import_organizations (line 1212).
sort_methods == <<"created_desc", "created_asc", "size_desc", "size_asc",
                  "active_desc", "active_asc">>

\* The loops of import_organizations before their first pass.
NoSweep == [sort |-> 1, page |-> 1, orgs |-> <<>>, ended |-> "nothing"]

\* The organizations a listing cell may show during a sweep.
SweepSnapshots == [symbol : OrgSymbols, attrs : {BaseAttrs}]

\* What the source may answer to the request of one page: the request fails
\* after its retries or the answer has not the expected shape, the page shows
\* no cell, or it shows one or two organizations.
SweepAnswers ==
    {[kind |-> "failed", orgs |-> <<>>], [kind |-> "empty", orgs |-> <<>>]}
        \cup {[kind |-> "page", orgs |-> cells] :
                 cells \in UNION {[1..n -> SweepSnapshots] : n \in 1..2}}

\* get_organizations (lines 991-1062): None when the request failed or the
\* page shows no cell (the empty list here, `not orgs` holds of both), else
\* the organizations of the page.
get_organizations(answer) ==
    IF answer.kind = "page" THEN answer.orgs ELSE <<>>

\* A sweep whose first page without organizations ends import_organizations:
\* the variant of Break under which EverySortOrderSwept must fail.
ReturnInsteadOfBreak(sw, ended) ==
    [sort |-> Len(sort_methods) + 1, page |-> 1, orgs |-> <<>>,
     ended |-> ended]

\* `break` (line 1223), or the end of range(1, 401): the loop over the pages
\* is left and the loop over sort_methods goes to the next sort order.
Break(sw, ended) ==
    [sort |-> sw.sort + 1, page |-> 1, orgs |-> <<>>, ended |-> ended]

\* The loop over the organizations of a page is over: the next page, or the
\* next sort order after the last page.
NextPage(sw) ==
    IF sw.page = MaxPage THEN Break(sw, "last_page")
    ELSE [sw EXCEPT !.page = @ + 1, !.orgs = <<>>]

\* One page of one sort order is requested (lines 1218-1223); the step
\* saves nothing.
SweepFetch ==
    /\ pc = "import_organizations"
    /\ sweep.sort <= Len(sort_methods)
    /\ sweep.orgs = <<>>
    /\ \E answer \in SweepAnswers :
         \E orgs \in {get_organizations(answer)} :
            sweep' = IF orgs = <<>> THEN Break(sweep, answer.kind)
                     ELSE [sweep EXCEPT !.orgs = orgs]
    /\ outcome' = NoOutcome
    /\ UNCHANGED <<store, now, pc, orgs_for_members, all_member_symbols,
                   result, org, request, connection>>
    /\ UNCHANGED orgs_to_update

\* The next organization of the page is passed to save_organization, whose
\* exception is logged (lines 1225-1230).
SweepSave ==
    /\ pc = "import_organizations"
    /\ sweep.orgs # <<>>
    /\ \E fault \in BOOLEAN : SaveOrganization(Head(sweep.orgs), fault)
    /\ sweep' = IF Tail(sweep.orgs) = <<>> THEN NextPage(sweep)
                ELSE [sweep EXCEPT !.orgs = Tail(@)]
    /\ UNCHANGED <<pc, request>>
    /\ UNCHANGED orgs_to_update

\* The loop over sort_methods is over: import_organizations returns.
SweepEnd ==
    /\ pc = "import_organizations"
    /\ sweep.sort = Len(sort_methods) + 1
    /\ pc' = "update_existing_organizations"
    /\ sweep' = NoSweep
    /\ org' = NoOrg
    /\ outcome' = NoOutcome
    /\ UNCHANGED <<store, now, orgs_for_members, all_member_symbols, result,
                   request, connection>>
    /\ UNCHANGED orgs_to_update

\* ----------------------------- update_existing_organizations as its loop

\* The parameter `hours` of get_organizations_to_update, in ticks of the
\* clock.
hours == 1

\* get_organizations_to_update (lines 644-650): the ids of the active
\* organizations whose last_updated is at least `hours` old.
get_organizations_to_update ==
    SetToSeq({i \in 1..Len(organizations) :
                 /\ organizations[i].last_updated <= now - hours
                 /\ organizations[i].is_active})

\* What the search for a symbol may answer: the request fails or shows no
\* cell, or the first cell of the result is an organization. The source
\* matches the search text as it sees fit; the program takes orgs[0] without
\* comparing its symbol with the one searched (lines 1245-1249).
SearchAnswers ==
    {[kind |-> "failed", orgs |-> <<>>], [kind |-> "empty", orgs |-> <<>>]}
        \cup {[kind |-> "page", orgs |-> <<snapshot>>] :
                 snapshot \in Snapshots}

\* update_existing_organizations up to its loop (lines 1239-1242).
UpdateExistingBegin ==
    /\ pc = "update_existing_organizations"
    /\ orgs_to_update' = get_organizations_to_update
    /\ pc' = "update_loop"
    /\ org' = NoOrg
    /\ outcome' = NoOutcome
    /\ connection' = Run(connection, <<"SELECT">>, 1)
    /\ UNCHANGED <<store, now, orgs_for_members, all_member_symbols, result,
                   request, sweep>>

\* One pass of the loop of update_existing_organizations (lines 1244-1251):
\* the symbol of the organization is searched and the first organization of
\* the result, if there is one, is saved.
UpdateExistingRefresh ==
    /\ pc = "update_loop"
    /\ orgs_to_update # <<>>
    /\ \E answer \in SearchAnswers :
         \E orgs \in {get_organizations(answer)} :
            IF orgs = <<>>
            THEN /\ outcome' = [op |-> "update_existing_organizations",
                                symbol |->
                                    organizations[Head(orgs_to_update)].symbol,
                                status |-> "skipped", error |-> "none",
                                history_rows |-> 0,
                                associations_to_insert |-> 0]
                 /\ org' = NoOrg
                 /\ UNCHANGED <<store, now, orgs_for_members,
                                all_member_symbols, result, connection>>
            ELSE \E fault \in BOOLEAN : SaveOrganization(orgs[1], fault)
    /\ orgs_to_update' = Tail(orgs_to_update)
    /\ UNCHANGED <<pc, request, sweep>>

\* update_existing_organizations returns: the loop over orgs_to_update ended.
UpdateExistingReturn ==
    /\ pc = "update_loop"
    /\ orgs_to_update = <<>>
    /\ pc' = "import_members"
    /\ org' = NoOrg
    /\ outcome' = NoOutcome
    /\ UNCHANGED <<store, now, orgs_for_members, all_member_symbols, result,
                   request, connection, sweep, orgs_to_update>>

\* --------------------------------------------------------- specifications

\* The state after setup(): empty tables, the first cycle about to start.
Init ==
    /\ organizations = <<>>
    /\ organization_history = <<>>
    /\ members = <<>>
    /\ member_organization = <<>>
    /\ member_rank_history = <<>>
    /\ now = 1
    /\ pc = "import_organizations"
    /\ orgs_for_members = <<>>
    /\ all_member_symbols = NoSymbols
    /\ result = NoResult
    /\ org = NoOrg
    /\ outcome = NoOutcome
    /\ request = NoRequest
    /\ connection = NoTransaction
    /\ sweep = NoSweep
    /\ orgs_to_update = <<>>

\* A cycle in which no roster can be retrieved: only organizations change.
NextOrg ==
    \/ ImportOrganizationsSave
    \/ ImportOrganizationsEnd
    \/ UpdateExistingSave
    \/ UpdateExistingEnd
    \/ ImportMembersBegin
    \/ ImportMembersSkip
    \/ ImportMembersEnd
    \/ ResetMembersUpdatedFlag
    \/ Sleep

SpecOrg == Init /\ [][NextOrg]_vars

\* The store after a first cycle that discovered organizations ABC and XYZ
\* and retrieved no roster; import_members is about to be called.
InitRoster ==
    /\ organizations =
           <<[symbol |-> "ABC", attrs |-> BaseAttrs, members_updated |-> FALSE,
              is_active |-> TRUE, last_updated |-> 1],
             [symbol |-> "XYZ", attrs |-> BaseAttrs, members_updated |-> FALSE,
              is_active |-> TRUE, last_updated |-> 1]>>
    /\ organization_history =
           <<HistoryRow(1, [symbol |-> "ABC", attrs |-> BaseAttrs],
                        <<<<"Organization created">>>>),
             HistoryRow(2, [symbol |-> "XYZ", attrs |-> BaseAttrs],
                        <<<<"Organization created">>>>)>>
    /\ members = <<>>
    /\ member_organization = <<>>
    /\ member_rank_history = <<>>
    /\ now = 1
    /\ pc = "import_members"
    /\ orgs_for_members = <<>>
    /\ all_member_symbols = NoSymbols
    /\ result = NoResult
    /\ org = NoOrg
    /\ outcome = NoOutcome
    /\ request = NoRequest
    /\ connection = NoTransaction
    /\ sweep = NoSweep
    /\ orgs_to_update = <<>>

\* A cycle whose organization listings return nothing: only rosters change.
NextRoster ==
    \/ ImportOrganizationsEnd
    \/ UpdateExistingEnd
    \/ ImportMembersBegin
    \/ ImportMembersSkip
    \/ ImportMembersReconcile
    \/ ImportMembersEnd
    \/ ResetMembersUpdatedFlag
    \/ Sleep

SpecRoster == InitRoster /\ [][NextRoster]_vars

\* ------------------------------------------- one listing page, any content

\* The attribute values a listing cell may carry: every attribute at "50",
\* one attribute at "55", every attribute at "55", or the name missing from
\* the cell (get_organizations reads a missing tag as "").
ListedAttrs ==
    {BaseAttrs, [f \in FieldSet |-> "55"], [BaseAttrs EXCEPT !["name"] = ""]}
        \cup {[BaseAttrs EXCEPT ![f] = "55"] : f \in FieldSet}

\* The organizations a listing page may carry: ABC with any of the attribute
\* values, XYZ, and a cell whose symbol tag is missing.
ListedSnapshots ==
    [symbol : {"ABC"}, attrs : ListedAttrs]
        \cup [symbol : {"XYZ", ""}, attrs : {BaseAttrs}]

\* import_organizations: one organization of such a page is saved.
ImportOrganizationsSaveListed ==
    /\ pc = "import_organizations"
    /\ \E snapshot \in ListedSnapshots, fault \in BOOLEAN :
          /\ Len(save_organization(snapshot).organization_history)
                 <= MaxListedHist
          /\ SaveOrganization(snapshot, fault)
    /\ UNCHANGED pc
    /\ UNCHANGED request
    /\ UNCHANGED sweep
    /\ UNCHANGED orgs_to_update

\* The clock of CURRENT_TIMESTAMP passes to the next second.
Tick ==
    /\ now < MaxTime
    /\ now' = now + 1
    /\ UNCHANGED <<store, pc, orgs_for_members, all_member_symbols, result,
                   org, outcome>>
    /\ UNCHANGED request
    /\ UNCHANGED connection
    /\ UNCHANGED sweep
    /\ UNCHANGED orgs_to_update

\* The sweep of import_organizations over pages of any content.
NextSave ==
    \/ ImportOrganizationsSaveListed
    \/ Tick

SpecSave == Init /\ [][NextSave]_vars

\* ------------------------------------------ the cycle with its exceptions

\* What an exception that ends a phase leaves in `outcome`.
Raised(op) ==
    [op |-> op, symbol |-> "", status |-> "raised", error |-> "exception",
     history_rows |-> 0, associations_to_insert |-> 0]

\* An exception after which the next cycle starts at once: the variant of
\* PhaseRaises under which PhasesInFixedOrder must fail.
PhaseRaisesAndStartsOver(phase, op) ==
    /\ pc = phase
    /\ pc' = "import_organizations"
    /\ outcome' = Raised(op)
    /\ orgs_for_members' = <<>>
    /\ all_member_symbols' = NoSymbols
    /\ result' = NoResult
    /\ org' = NoOrg
    /\ connection' = Run(connection, RaiseStatements(op), 1)
    /\ UNCHANGED <<store, now>>
    /\ UNCHANGED request
    /\ UNCHANGED sweep
    /\ UNCHANGED orgs_to_update

\* An exception that ends the loop of run_continuous_import: the variant of
\* PhaseRaises under which DiscoveryAlwaysBeginsAgain must fail.
PhaseRaisesAndStops(phase, op) ==
    /\ pc = phase
    /\ pc' = "stopped"
    /\ outcome' = Raised(op)
    /\ orgs_for_members' = <<>>
    /\ all_member_symbols' = NoSymbols
    /\ result' = NoResult
    /\ org' = NoOrg
    /\ connection' = Run(connection, RaiseStatements(op), 1)
    /\ UNCHANGED <<store, now>>
    /\ UNCHANGED request
    /\ UNCHANGED sweep
    /\ UNCHANGED orgs_to_update

\* An exception leaves a phase and is caught by run_import_cycle (lines
\* 1413-1414), which logs it and returns: the phases still to come are not
\* run, and run_continuous_import sleeps for the interval.
PhaseRaises(phase, op) ==
    /\ pc = phase
    /\ pc' = "sleep"
    /\ outcome' = Raised(op)
    /\ orgs_for_members' = <<>>
    /\ all_member_symbols' = NoSymbols
    /\ result' = NoResult
    /\ org' = NoOrg
    /\ connection' = Run(connection, RaiseStatements(op), 1)
    /\ UNCHANGED <<store, now>>
    /\ UNCHANGED request
    /\ UNCHANGED sweep
    /\ UNCHANGED orgs_to_update

\* get_organizations raises in import_organizations (a timeout or an answer
\* of an unexpected shape; only the saves are guarded).
ImportOrganizationsRaises ==
    PhaseRaises("import_organizations", "import_organizations")

\* get_organizations_to_update or get_organizations raises in
\* update_existing_organizations.
UpdateExistingRaises ==
    PhaseRaises("update_existing_organizations",
                "update_existing_organizations")

\* get_organizations_for_member_update raises (line 1256).
ImportMembersRaises == PhaseRaises("import_members", "import_members")

\* get_all_member_symbols raises: import_members logs it and returns (lines
\* 1262-1267); the cycle goes on to the reset.
ImportMembersAborts ==
    /\ pc = "import_members"
    /\ pc' = "reset_members_updated_flag"
    /\ outcome' = [op |-> "import_members", symbol |-> "",
                   status |-> "aborted", error |-> "exception",
                   history_rows |-> 0, associations_to_insert |-> 0]
    /\ connection' = Run(connection, <<"SELECT", "SELECT">>, 1)
    /\ UNCHANGED <<store, now, orgs_for_members, all_member_symbols, result,
                   org>>
    /\ UNCHANGED request
    /\ UNCHANGED sweep
    /\ UNCHANGED orgs_to_update

\* The UPDATE of reset_members_updated_flag fails: rolled back and raised
\* again (lines 630-633).
ResetRaises ==
    PhaseRaises("reset_members_updated_flag", "reset_members_updated_flag")

\* The wait of run_continuous_import ends and run_import_cycle raises outside
\* its try block (the session of line 1397): the loop waits 300 seconds.
SessionRaises ==
    /\ pc \in {"sleep", "cooldown"}
    /\ pc' = "cooldown"
    /\ outcome' = Raised("run_import_cycle")
    /\ UNCHANGED <<store, now, orgs_for_members, all_member_symbols, result,
                   org>>
    /\ UNCHANGED request
    /\ UNCHANGED connection
    /\ UNCHANGED sweep
    /\ UNCHANGED orgs_to_update

\* The 300 seconds are over: the next cycle starts.
Cooldown ==
    /\ pc = "cooldown"
    /\ pc' = "import_organizations"
    /\ UNCHANGED <<store, now, orgs_for_members, all_member_symbols, result,
                   org, outcome>>
    /\ UNCHANGED request
    /\ UNCHANGED connection
    /\ UNCHANGED sweep
    /\ UNCHANGED orgs_to_update

\* The process is stopped and started again: what was committed stays,
\* setup() opens the database and the first cycle starts (main).
Restart ==
    /\ pc' = "import_organizations"
    /\ outcome' = [op |-> "main", symbol |-> "", status |-> "restarted",
                   error |-> "none", history_rows |-> 0,
                   associations_to_insert |-> 0]
    /\ orgs_for_members' = <<>>
    /\ all_member_symbols' = NoSymbols
    /\ result' = NoResult
    /\ org' = NoOrg
    /\ connection' = NoTransaction
    /\ sweep' = NoSweep
    /\ orgs_to_update' = <<>>
    /\ UNCHANGED <<store, now>>
    /\ UNCHANGED request

\* get_organizations raises while a page is requested (a timeout, an answer
\* that is no JSON object): the exception leaves import_organizations and is
\* caught by run_import_cycle (lines 1413-1414).
SweepRaises ==
    /\ pc = "import_organizations"
    /\ sweep.sort <= Len(sort_methods)
    /\ sweep.orgs = <<>>
    /\ pc' = "sleep"
    /\ sweep' = NoSweep
    /\ outcome' = Raised("import_organizations")
    /\ org' = NoOrg
    /\ UNCHANGED <<store, now, orgs_for_members, all_member_symbols, result,
                   request, connection>>
    /\ UNCHANGED orgs_to_update

\* import_organizations page by page, the wait after an exception, the
\* process restarted at any moment.
NextSweep ==
    \/ SweepFetch
    \/ SweepSave
    \/ SweepEnd
    \/ SweepRaises
    \/ Sleep
    \/ Restart

SpecSweep == Init /\ [][NextSweep]_vars

\* update_existing_organizations organization by organization, while time
\* passes, the process restarted at any moment.
NextRefresh ==
    \/ ImportOrganizationsEnd
    \/ UpdateExistingBegin
    \/ UpdateExistingRefresh
    \/ UpdateExistingReturn
    \/ Tick
    \/ Restart

SpecRefresh == InitRoster /\ [][NextRefresh]_vars

\* The steps of run_continuous_import, over rosters of at most one member.
NextController ==
    \/ ImportOrganizationsSave
    \/ ImportOrganizationsEnd
    \/ ImportOrganizationsRaises
    \/ UpdateExistingSave
    \/ UpdateExistingEnd
    \/ UpdateExistingRaises
    \/ ImportMembersBegin
    \/ ImportMembersRaises
    \/ ImportMembersAborts
    \/ ImportMembersSkip
    \/ ImportMembersReconcileShort
    \/ ImportMembersEnd
    \/ ResetMembersUpdatedFlag
    \/ ResetRaises
    \/ Sleep
    \/ SessionRaises
    \/ Cooldown

\* The whole cycle, the process restarted at any moment.
NextCycle ==
    \/ NextController
    \/ Restart

SpecCycle == InitRoster /\ [][NextCycle]_vars

\* What the loops of the program guarantee: the sweep of import_organizations
\* has at most 6 x 400 pages, the loops of update_existing_organizations and
\* import_members run over finite lists, each request gives up after five
\* attempts, and asyncio.sleep returns.
Fairness ==
    /\ WF_vars(ImportOrganizationsEnd)
    /\ WF_vars(UpdateExistingEnd)
    /\ WF_vars(ImportMembersBegin)
    /\ WF_vars(ImportMembersSkip \/ ImportMembersReconcileShort)
    /\ WF_vars(ImportMembersEnd)
    /\ WF_vars(ResetMembersUpdatedFlag)
    /\ WF_vars(Sleep)
    /\ WF_vars(Cooldown)

\* The loop of run_continuous_import in a process that is never stopped.
SpecController == InitRoster /\ [][NextController]_vars /\ Fairness

\* The requests of a phase, one after the other, whatever the source answers.
NextRequest ==
    \/ MakeRequest
    \/ MakeRequestAttempt
    \/ MakeRequestGiveUp

\* Every POST ends (with an answer or an aiohttp.ClientError) and every
\* time.sleep returns.
SpecRequest ==
    /\ Init
    /\ [][NextRequest]_vars
    /\ WF_vars(MakeRequestAttempt)
    /\ WF_vars(MakeRequestGiveUp)

\* -------------------------------------------- vocabulary of the properties

\* A step of save_organization: a phase that saves organizations goes on,
\* and the step is a call of save_organization, not a tick of the clock.
SaveStep ==
    /\ pc \in {"import_organizations", "update_existing_organizations"}
    /\ pc' = pc
    /\ outcome'.op = "save_organization"
    /\ now' = now

\* No row of `rows` equals the snapshot: the organization is absent, or its
\* row differs from the snapshot in at least one attribute.
AbsentOrDiffers(snapshot, rows) ==
    \A i \in 1..Len(rows) :
        rows[i].symbol = snapshot.symbol => rows[i].attrs # snapshot.attrs

\* One pass of the loop of import_members over the next organization.
LoopStep == pc = "members_loop" /\ orgs_for_members # <<>>

\* The handles of a fetch result.
Fetched(res) == {h \in Handles : res.ranks[h] # {}}

\* The handle of a member id ("" when no Member row carries the id).
HandleOf(rows, member_id) ==
    IF member_id \in 1..Len(rows) THEN rows[member_id].symbol ELSE ""

\* The Membership rows of a member in an organization, active or not.
Memberships(rows, member_id, org_id, is_active) ==
    {i \in 1..Len(rows) : /\ rows[i].member_id = member_id
                          /\ rows[i].organization_id = org_id
                          /\ rows[i].is_active = is_active}

\* The active Membership rows of an organization.
ActiveRows(rows, org_id) ==
    {i \in 1..Len(rows) : rows[i].organization_id = org_id /\ rows[i].is_active}

\* The handles with an active Membership to an organization.
ActiveHandles(rows, member_rows, org_id) ==
    {HandleOf(member_rows, rows[i].member_id) : i \in ActiveRows(rows, org_id)}

\* The rank-history rows a step added for a member in an organization.
AddedRankHistory(before, after, member_id, org_id) ==
    {k \in (Len(before) + 1)..Len(after) :
        /\ after[k].member_id = member_id
        /\ after[k].organization_id = org_id}

\* ------------------------------------------------------------- properties

\* C1: a call of save_organization that returns appends exactly one
\* organization_history row when the organization is absent or differs from
\* the snapshot in at least one attribute, and none otherwise; a call that
\* directly follows a returned call with the same snapshot appends none.
SaveOrganizationIdempotent ==
    [][(SaveStep /\ outcome'.status = "returned") =>
          /\ SubSeq(organization_history', 1, Len(organization_history))
                 = organization_history
          /\ Len(organization_history') =
                 Len(organization_history)
                     + (IF AbsentOrDiffers(org', organizations) THEN 1 ELSE 0)
          /\ (outcome.status = "returned" /\ org = org') =>
                 organization_history' = organization_history]_vars

\* C1, its case: ABC was saved with a changed member count and the last call,
\* with the snapshot the row already equals, returned without a history row.
SecondSaveAppendsNothing ==
    /\ outcome.op = "save_organization"
    /\ outcome.status = "returned"
    /\ outcome.history_rows = 0
    /\ org.symbol = "ABC"
    /\ org.attrs["member_count"] = "55"
    /\ \E i \in 1..Len(organizations) :
          organizations[i].symbol = "ABC" /\ organizations[i].attrs = org.attrs
    /\ Len(organization_history) >= 2

\* C2: each (member, organization) pair has at most one member_organization
\* row with is_active = 1, in every state of the store.
AtMostOneActiveMembership ==
    \A i, j \in 1..Len(member_organization) :
        (/\ member_organization[i].member_id = member_organization[j].member_id
         /\ member_organization[i].organization_id
                = member_organization[j].organization_id
         /\ member_organization[i].is_active
         /\ member_organization[j].is_active) => i = j

\* C2, its case: a roster that carried a handle twice was committed and the
\* organization holds an active Membership.
DuplicateRosterCommitted ==
    /\ outcome.op = "import_members"
    /\ outcome.status = "committed"
    /\ result.duplicates # {}
    /\ outcome.associations_to_insert = 2
    /\ \E i \in 1..Len(member_organization) :
          /\ member_organization[i].is_active
          /\ organizations[member_organization[i].organization_id].symbol
                 = outcome.symbol

\* C3: when the roster of an organization is retrieved completely, with no
\* handle twice and no store fault striking, at the end of the pass every
\* Membership that was active for the organization and whose handle is not
\* in the roster is inactive with left_at set, and no member_rank_history
\* row was added for its member.
DepartureCompleteness ==
    [][(LoopStep /\ result'.ok /\ ~result'.page_errors
            /\ result'.duplicates = {} /\ outcome'.error # "fault") =>
          \A i \in ActiveRows(member_organization, Head(orgs_for_members)) :
              (/\ member_organization[i].member_id \in 1..Len(members)
               /\ HandleOf(members, member_organization[i].member_id)
                       \notin Fetched(result')) =>
                  /\ ~member_organization'[i].is_active
                  /\ member_organization'[i].left_at # NULL
                  /\ AddedRankHistory(member_rank_history, member_rank_history',
                                      member_organization[i].member_id,
                                      Head(orgs_for_members)) = {}]_vars

\* C4: after a reconciliation from a retrieved roster has been committed, the
\* handles with an active Membership to the organization are exactly the
\* handles of the fetched members.
ActiveSetEqualsRoster ==
    [][(LoopStep /\ result'.ok /\ outcome'.status = "committed") =>
          ActiveHandles(member_organization', members', Head(orgs_for_members))
              = Fetched(result')]_vars

\* C5: when the request of any page of a roster fails, the first or a later
\* one, no active Membership of the organization is made inactive in the pass.
NoDepartureOnFetchError ==
    [][(LoopStep /\ (~result'.ok \/ result'.page_errors)) =>
          \A i \in ActiveRows(member_organization, Head(orgs_for_members)) :
              member_organization'[i].is_active]_vars

\* C6: a committed reconciliation adds exactly one member_rank_history row
\* for each retained member fetched with one rank that differs from the
\* persisted rank and sets the Membership to the fetched rank; a retained
\* member fetched with the persisted rank gets no row and no update.
RankChangeAtomicity ==
    [][(LoopStep /\ result'.ok /\ outcome'.status = "committed") =>
          \A i \in ActiveRows(member_organization, Head(orgs_for_members)) :
              LET member_id == member_organization[i].member_id
                  ranks == result'.ranks[HandleOf(members, member_id)]
                  added == AddedRankHistory(member_rank_history,
                                            member_rank_history', member_id,
                                            Head(orgs_for_members))
              IN (/\ HandleOf(members, member_id) \in Fetched(result')
                  /\ Cardinality(ranks) = 1) =>
                     IF ranks # {member_organization[i].rank}
                     THEN /\ Cardinality(added) = 1
                          /\ {member_organization'[i].rank} = ranks
                     ELSE /\ added = {}
                          /\ member_organization'[i].rank
                                 = member_organization[i].rank]_vars

\* C7: the writes of one organization's plan are committed together or not at
\* all: a pass that rolls back leaves the five tables as they were, and a pass
\* that commits has inserted every association its plan held.
PlanCommitsAsAWhole ==
    [][(LoopStep /\ result'.ok) =>
          IF outcome'.status = "committed"
          THEN Len(member_organization') =
                   Len(member_organization) + outcome'.associations_to_insert
          ELSE store' = store]_vars

\* C8: when a write of an organization's plan fails (a step raises, or an
\* association insert is refused), the tables are left as they were and the
\* loop goes on with the organizations queued after it.
WriteFailureRollsBack ==
    [][(/\ LoopStep
        /\ result'.ok
        /\ \/ outcome'.error # "none"
           \/ Len(member_organization') <
                  Len(member_organization) + outcome'.associations_to_insert) =>
          /\ store' = store
          /\ pc' = "members_loop"
          /\ orgs_for_members' = Tail(orgs_for_members)]_vars

\* C9: a roster that carries a handle more than once is committed (no store
\* fault striking) with exactly one Member row for the handle, exactly one
\* active Membership of that member to the organization and at most one new
\* member_rank_history row for it.
DuplicateHandlesCollapse ==
    [][(LoopStep /\ result'.ok /\ outcome'.error # "fault") =>
          \A h \in result'.duplicates :
              /\ outcome'.status = "committed"
              /\ Cardinality({m \in 1..Len(members') : members'[m].symbol = h}) = 1
              /\ \A m \in 1..Len(members') :
                    members'[m].symbol = h =>
                        /\ Cardinality(Memberships(member_organization', m,
                                                   Head(orgs_for_members), TRUE)) = 1
                        /\ Cardinality(AddedRankHistory(
                                           member_rank_history,
                                           member_rank_history', m,
                                           Head(orgs_for_members))) <= 1]_vars

\* C10: when a member who is active in an organization after an earlier
\* tenure (an inactive Membership with left_at set) is absent from the
\* completely retrieved roster, the pass commits (no store fault striking) and
\* leaves no active Membership and two inactive ones, both with left_at set.
SecondDepartureRecorded ==
    [][(LoopStep /\ result'.ok /\ ~result'.page_errors
            /\ outcome'.error # "fault") =>
          \A m \in 1..Len(members) :
              (/\ members[m].symbol \notin Fetched(result')
               /\ Memberships(member_organization, m,
                              Head(orgs_for_members), TRUE) # {}
               /\ Memberships(member_organization, m,
                              Head(orgs_for_members), FALSE) # {}) =>
                  /\ outcome'.status = "committed"
                  /\ Memberships(member_organization', m,
                                 Head(orgs_for_members), TRUE) = {}
                  /\ Cardinality(Memberships(member_organization', m,
                                             Head(orgs_for_members), FALSE)) = 2
                  /\ \A i \in Memberships(member_organization', m,
                                          Head(orgs_for_members), FALSE) :
                        member_organization'[i].left_at # NULL]_vars


\* The rows of `history` that record the creation of organization `symbol`.
CreationRows(history, symbol) ==
    {i \in 1..Len(history) :
        /\ history[i].symbol = symbol
        /\ history[i].change_description = <<<<"Organization created">>>>}

\* C11: saving an organization whose symbol is not persisted yet adds exactly
\* one row to organizations and exactly one row to organization_history, with
\* the description "Organization created", whatever the attributes of the
\* snapshot are; and in every reachable state each organization has exactly
\* one creation row in organization_history.
CreationRecordedOnce ==
    /\ [](\A i \in 1..Len(organizations) :
            /\ Cardinality(CreationRows(organization_history,
                                        organizations[i].symbol)) = 1
            /\ \A j \in CreationRows(organization_history,
                                     organizations[i].symbol) :
                   organization_history[j].organization_id = i)
    /\ [][(/\ SaveStep
           /\ outcome'.status = "returned"
           /\ \A i \in 1..Len(organizations) :
                  organizations[i].symbol # org'.symbol)
          => /\ Len(organizations') = Len(organizations) + 1
             /\ SubSeq(organizations', 1, Len(organizations)) = organizations
             /\ organizations'[Len(organizations')].symbol = org'.symbol
             /\ organizations'[Len(organizations')].attrs = org'.attrs
             /\ Len(organization_history') = Len(organization_history) + 1
             /\ SubSeq(organization_history', 1, Len(organization_history))
                    = organization_history
             /\ organization_history'[Len(organization_history')]
                    = [organization_id |-> Len(organizations'),
                       symbol |-> org'.symbol, attrs |-> org'.attrs,
                       change_description |-> <<<<"Organization created">>>>]
      ]_vars

\* An organization was just created next to another one, from a snapshot
\* whose attributes are not the ones of the first: the creation row is the
\* last of the history.
SecondOrganizationCreated ==
    /\ outcome.op = "save_organization"
    /\ outcome.status = "returned"
    /\ outcome.history_rows = 1
    /\ Len(organizations) = 2
    /\ organizations[2].symbol = org.symbol
    /\ organizations[1].attrs # organizations[2].attrs
    /\ organization_history[Len(organization_history)].change_description
           = <<<<"Organization created">>>>
    /\ organization_history[Len(organization_history)].organization_id = 2


\* The labels of a change description, in the order the claim gives them.
FixedOrder ==
    <<"Name", "Image URL", "Org URL", "Archetype", "Language", "Commitment",
      "Recruitment", "Roleplay", "Member count">>

\* The place of a label in FixedOrder, 0 when it is none of the labels.
Place(label) ==
    IF \E p \in 1..Len(FixedOrder) : FixedOrder[p] = label
    THEN CHOOSE p \in 1..Len(FixedOrder) : FixedOrder[p] = label
    ELSE 0

\* The id of the persisted organization `symbol`, 0 when there is none.
Persisted(rows, symbol) ==
    IF \E i \in 1..Len(rows) : rows[i].symbol = symbol
    THEN CHOOSE i \in 1..Len(rows) : rows[i].symbol = symbol
    ELSE 0

\* The description `d` lists exactly the attributes in which `new` differs
\* from `old`, each once as <<label, old value, new value>>, in FixedOrder.
ListsDifferences(d, old, new) ==
    /\ \A k \in 1..Len(d) :
          /\ Place(d[k][1]) # 0
          /\ old[Fields[Place(d[k][1])]] # new[Fields[Place(d[k][1])]]
          /\ d[k][2] = old[Fields[Place(d[k][1])]]
          /\ d[k][3] = new[Fields[Place(d[k][1])]]
    /\ \A k \in 1..(Len(d) - 1) : Place(d[k][1]) < Place(d[k + 1][1])
    /\ \A p \in 1..Len(Fields) :
          old[Fields[p]] # new[Fields[p]]
              => \E k \in 1..Len(d) : d[k][1] = FixedOrder[p]

\* C17: when the snapshot of a persisted organization differs from its row in
\* at least one attribute, save_organization sets every attribute of the row
\* to the snapshot's and appends exactly one history row, whose description
\* lists exactly the differing fields, each once as "Field: old -> new", in
\* the order Name, Image URL, Org URL, Archetype, Language, Commitment,
\* Recruitment, Roleplay, Member count.
ChangeDescriptionListsDifferences ==
    [][(/\ SaveStep
        /\ outcome'.status = "returned"
        /\ Persisted(organizations, org'.symbol) # 0
        /\ organizations[Persisted(organizations, org'.symbol)].attrs
               # org'.attrs)
       => /\ Len(organizations') = Len(organizations)
          /\ \A i \in 1..Len(organizations) :
                IF i = Persisted(organizations, org'.symbol)
                THEN /\ organizations'[i].attrs = org'.attrs
                     /\ organizations'[i].symbol = org'.symbol
                ELSE organizations'[i] = organizations[i]
          /\ Len(organization_history') = Len(organization_history) + 1
          /\ SubSeq(organization_history', 1, Len(organization_history))
                 = organization_history
          /\ LET row == organization_history'[Len(organization_history')]
             IN /\ row.organization_id
                       = Persisted(organizations, org'.symbol)
                /\ row.attrs = org'.attrs
                /\ ListsDifferences(
                       row.change_description,
                       organizations[Persisted(organizations,
                                               org'.symbol)].attrs,
                       org'.attrs)
      ]_vars

\* A change of several attributes, the name not among them, was just
\* recorded.
SeveralFieldsChanged ==
    /\ outcome.op = "save_organization"
    /\ outcome.status = "returned"
    /\ outcome.history_rows = 1
    /\ LET d == organization_history[Len(organization_history)]
                    .change_description
       IN /\ Len(d) >= 2
          /\ d[1][1] = "Image URL"
          /\ d[Len(d)][1] = "Member count"


\* A returned save of ABC whose only difference from the persisted row is
\* the member count, "50" in the row and "55" in the snapshot.
MemberCountStep ==
    /\ SaveStep
    /\ outcome'.status = "returned"
    /\ org'.symbol = "ABC"
    /\ Persisted(organizations, "ABC") # 0
    /\ LET old == organizations[Persisted(organizations, "ABC")].attrs
       IN /\ old["member_count"] = "50"
          /\ org'.attrs = [old EXCEPT !["member_count"] = "55"]

\* The step changes the row of ABC and no other row, and appends one history
\* row whose description has the entry <<label, "50", "55">>.
MemberCountRecordedAs(label) ==
    /\ Len(organizations') = Len(organizations)
    /\ \A i \in 1..Len(organizations) :
          IF i = Persisted(organizations, "ABC")
          THEN organizations'[i].attrs = org'.attrs
          ELSE organizations'[i] = organizations[i]
    /\ Len(organization_history') = Len(organization_history) + 1
    /\ SubSeq(organization_history', 1, Len(organization_history))
           = organization_history
    /\ \E k \in 1..Len(organization_history'[Len(organization_history')]
                           .change_description) :
          organization_history'[Len(organization_history')]
              .change_description[k] = <<label, "50", "55">>

\* C18: when the only difference between the persisted organization ABC and
\* its snapshot is the member count going from "50" to "55", the save updates
\* one organization row and appends exactly one history row, whose
\* description contains "Member count: 50 -> 55" (the label the program
\* writes).
MemberCountChangeRecorded ==
    [][MemberCountStep => MemberCountRecordedAs("Member count")]_vars

\* C18 as stated: the description contains "member_count: 50 -> 55".
MemberCountChangeNamesColumn ==
    [][MemberCountStep => MemberCountRecordedAs("member_count")]_vars

\* The member count of ABC, and nothing else, was just changed from "50" to
\* "55".
MemberCountJustChanged ==
    /\ outcome.op = "save_organization"
    /\ outcome.status = "returned"
    /\ outcome.symbol = "ABC"
    /\ outcome.history_rows = 1
    /\ organizations[1].symbol = "ABC"
    /\ organizations[1].attrs = [BaseAttrs EXCEPT !["member_count"] = "55"]
    /\ organization_history[Len(organization_history)].change_description
           = <<<<"Member count", "50", "55">>>>


\* A returned save of a persisted organization whose row equals the snapshot
\* in every attribute.
UnchangedSnapshotStep ==
    /\ SaveStep
    /\ outcome'.status = "returned"
    /\ Persisted(organizations, org'.symbol) # 0
    /\ organizations[Persisted(organizations, org'.symbol)].attrs = org'.attrs

\* The step leaves every column but last_updated of the saved row, every
\* other row of organizations and the table organization_history as they
\* were.
OnlyLastUpdatedMayChange ==
    /\ Len(organizations') = Len(organizations)
    /\ \A i \in 1..Len(organizations) :
          IF i = Persisted(organizations, org'.symbol)
          THEN organizations'[i]
                   = [organizations[i] EXCEPT
                          !.last_updated = organizations'[i].last_updated]
          ELSE organizations'[i] = organizations[i]
    /\ organization_history' = organization_history
    /\ UNCHANGED <<members, member_organization, member_rank_history>>

\* C19: when a snapshot equals the persisted organization in every attribute,
\* save_organization changes only last_updated, which is set to the current
\* time and is never earlier than it was: all other columns of the
\* organization, all other organizations and organization_history are
\* unchanged.
UnchangedSnapshotTouchesLastUpdated ==
    [][UnchangedSnapshotStep
          => /\ OnlyLastUpdatedMayChange
             /\ organizations'[Persisted(organizations, org'.symbol)]
                    .last_updated = now
             /\ organizations'[Persisted(organizations, org'.symbol)]
                    .last_updated
                    >= organizations[Persisted(organizations, org'.symbol)]
                           .last_updated
      ]_vars

\* C19 as stated: last_updated advances at every such save.
UnchangedSnapshotAdvancesLastUpdated ==
    [][UnchangedSnapshotStep
          => /\ OnlyLastUpdatedMayChange
             /\ organizations'[Persisted(organizations, org'.symbol)]
                    .last_updated
                    > organizations[Persisted(organizations, org'.symbol)]
                          .last_updated
      ]_vars

\* An organization was saved again with its own attributes a second later,
\* next to another organization: only its last_updated moved.
UnchangedSnapshotSavedLater ==
    /\ outcome.op = "save_organization"
    /\ outcome.status = "returned"
    /\ outcome.history_rows = 0
    /\ Len(organizations) = 2
    /\ Len(organization_history) = 2
    /\ \E i \in 1..2 :
          /\ organizations[i].symbol = org.symbol
          /\ organizations[i].attrs = org.attrs
          /\ organizations[i].last_updated = 2
          /\ organizations[3 - i].last_updated = 1


\* C20: a fetched organization whose symbol or name is empty is rejected: the
\* save writes no row to organizations and no row to organization_history
\* (the saves of the other organizations of the page go on).
MalformedSnapshotRejected ==
    [][(/\ SaveStep
        /\ outcome'.op = "save_organization"
        /\ org'.symbol = "" \/ org'.attrs["name"] = "")
       => /\ organizations' = organizations
          /\ organization_history' = organization_history
          /\ outcome'.status = "raised"
      ]_vars


\* C12: within one cycle the attribute plan of an organization (the writes
\* of save_organization) and its roster plan (the writes of import_members,
\* which end by setting members_updated) are applied in one transaction: no
\* step commits an attribute change of an organization without committing
\* its roster pass as well.
AttributesAndRosterCommitTogether ==
    [][(/\ outcome'.op = "save_organization"
        /\ organization_history' # organization_history)
       => /\ Persisted(organizations', org'.symbol) # 0
          /\ organizations'[Persisted(organizations', org'.symbol)]
                 .members_updated
      ]_vars


\* The phase of the controller a position of the program belongs to: 1 is
\* DiscoverEntities, 2 RefreshStaleEntities, 3 RefreshRosters (with the reset
\* that closes it), 4 Idle.
PhaseOf(position) ==
    CASE position = "import_organizations" -> 1
      [] position = "update_existing_organizations" -> 2
      [] position \in {"import_members", "members_loop",
                       "reset_members_updated_flag"} -> 3
      [] position \in {"sleep", "cooldown"} -> 4
      [] OTHER -> 0

\* A step of the running process (not its start).
ControllerStep == outcome'.status # "restarted"

\* C13: the phases occur in the order DiscoverEntities, RefreshStaleEntities,
\* RefreshRosters, Idle, DiscoverEntities: a phase is entered from the one
\* before it only (the program is in one phase at a time), an exception leads
\* from a phase to the wait, and DiscoverEntities is entered from the wait
\* only.
PhasesInFixedOrder ==
    [][(ControllerStep /\ PhaseOf(pc') # PhaseOf(pc))
       => \/ PhaseOf(pc') = (PhaseOf(pc) % 4) + 1
          \/ PhaseOf(pc') = 4 /\ outcome'.status = "raised"
      ]_vars

\* DiscoverEntities begins after a cycle without exception in which nova left
\* ABC: the rosters of ABC were reconciled in two cycles, the second of which
\* went through all four phases.
WholeCycleCompleted ==
    /\ pc = "import_organizations"
    /\ outcome = NoOutcome
    /\ \E i \in 1..Len(member_organization) :
          /\ member_organization[i].organization_id = 1
          /\ ~member_organization[i].is_active

\* C14: whenever a DiscoverEntities phase begins, members_updated is 0 on
\* every persisted organization, also after a cycle that ended with an
\* exception and after a restart of the process in the middle of
\* import_members.
FlagsResetWhenDiscoveryBegins ==
    [][(pc' = "import_organizations" /\ pc # "import_organizations")
       => \A i \in 1..Len(organizations') :
              ~organizations'[i].members_updated
      ]_vars

\* C16: after an exception raised during a phase of a cycle, the wait that
\* precedes the next DiscoverEntities is the cooldown of 300 seconds, not the
\* sleep of the polling interval.
CooldownAfterPhaseException ==
    [][(/\ ControllerStep
        /\ pc' = "import_organizations"
        /\ pc # "import_organizations"
        /\ outcome.status = "raised"
        /\ outcome.op # "run_import_cycle")
       => pc = "cooldown"
      ]_vars

\* C15: no exception ends the loop: whatever happened, the controller waits
\* again and a DiscoverEntities phase begins again (every request ends, the
\* process is not stopped).
DiscoveryAlwaysBeginsAgain ==
    /\ []<>(pc \in {"sleep", "cooldown"})
    /\ []<>(pc = "import_organizations")

\* DiscoverEntities began again after the wait that followed an exception in
\* reset_members_updated_flag.
DiscoveryBeganAfterException ==
    /\ pc = "import_organizations"
    /\ outcome = Raised("reset_members_updated_flag")


\* C21: _make_request ends after at most max_retries attempts, whatever mix
\* of HTTP errors, empty bodies, undecodable bodies, throttling signals and
\* client errors the source answers with: it returns the first valid answer,
\* or None once the last attempt has failed; and the failure stays within the
\* request (no step of a request moves the phase or writes the store, and the
\* caller may issue its next request).
RequestTerminates ==
    /\ [](/\ request.attempt <= max_retries
          /\ Len(request.answers) <= max_retries)
    /\ [](request.state = "returned"
            => \/ /\ request.returned = "data"
                  /\ request.answers[Len(request.answers)] = "ok"
                  /\ \A i \in 1..(Len(request.answers) - 1) :
                         request.answers[i] # "ok"
               \/ /\ request.returned = "None"
                  /\ Len(request.answers) = max_retries
                  /\ \A i \in 1..Len(request.answers) :
                         request.answers[i] # "ok")
    /\ (request.state = "attempting") ~> (request.state = "returned")
    /\ [][request' # request => UNCHANGED <<store, pc, outcome>>]_vars
    /\ [](request.state = "returned" => ENABLED MakeRequest)

\* A request gave up after an HTTP error, an empty body, an undecodable body,
\* a throttling signal and a client error.
RequestGaveUpAfterEveryKind ==
    /\ request.state = "returned"
    /\ request.returned = "None"
    /\ request.answers = <<"http_error", "empty_body", "undecodable",
                           "throttled", "client_error">>

\* C22: a throttling signal at attempt k (from 0) is followed by a wait of
\* 5 * 2^k seconds (5, 10, 20, 40, 80), longer than the 2^k seconds (1, 2, 4,
\* 8, 16) that follow a transport or HTTP error at the same attempt; the
\* waits of consecutive throttled attempts double.
ThrottlingBackoff ==
    /\ Len(request.waits) <= 5
    /\ \A i \in 1..Len(request.waits) :
          /\ request.answers[i] = "throttled"
                => /\ request.waits[i] = <<5, 10, 20, 40, 80>>[i]
                   /\ request.waits[i] > <<1, 2, 4, 8, 16>>[i]
          /\ request.answers[i] \in {"http_error", "empty_body",
                                     "undecodable", "client_error"}
                => request.waits[i] = <<1, 2, 4, 8, 16>>[i]
    /\ \A i \in 1..(Len(request.waits) - 1) :
          (request.answers[i] = "throttled"
               /\ request.answers[i + 1] = "throttled")
              => request.waits[i + 1] = 2 * request.waits[i]

\* The source throttled attempts 1 and 2 after a client error at attempt 0,
\* and then answered.
ThrottledTwiceThenAnswered ==
    /\ request.state = "returned"
    /\ request.returned = "data"
    /\ request.answers = <<"client_error", "throttled", "throttled", "ok">>
    /\ request.waits = <<1, 10, 20>>


\* The table `after` holds every row of `before`, at its place and with its
\* contents.
Extends(after, before) ==
    /\ Len(after) >= Len(before)
    /\ SubSeq(after, 1, Len(before)) = before

\* C23: the two history tables are append-only: every step of a cycle leaves
\* each row of organization_history and of member_rank_history in place with
\* the same contents; no operation updates or deletes a history row.
HistoriesAppendOnly ==
    [][/\ Extends(organization_history', organization_history)
       /\ Extends(member_rank_history', member_rank_history)]_vars

\* Both histories have grown: an attribute change of an organization and two
\* rank assignments were recorded after the creation rows.
BothHistoriesGrew ==
    /\ Len(organization_history) = 3
    /\ organization_history[3].change_description
           # <<<<"Organization created">>>>
    /\ Len(member_rank_history) >= 2

\* C24: no operation of a cycle removes an organization or sets it inactive:
\* from one committed state to the next every organization row stays, with
\* its symbol and is_active = 1, also when the organization is in no listing
\* and its roster cannot be retrieved or comes back empty.
OrganizationsNeverRetired ==
    /\ [](\A i \in 1..Len(organizations) : organizations[i].is_active)
    /\ [][/\ Len(organizations') >= Len(organizations)
          /\ \A i \in 1..Len(organizations) :
                /\ organizations'[i].symbol = organizations[i].symbol
                /\ organizations'[i].is_active]_vars

\* A cycle has ended and the program sleeps; a listing changed ABC, and XYZ,
\* which no listing changed since its creation, is still there and active.
UnlistedOrganizationKept ==
    /\ pc = "sleep"
    /\ Len(organization_history) = 3
    /\ organization_history[3].symbol = "ABC"
    /\ organizations[2].symbol = "XYZ"
    /\ organizations[2].is_active
    /\ organizations[2].attrs = BaseAttrs
    /\ outcome = NoOutcome


\* No two rows of `rows` carry the same symbol.
SymbolsDistinct(rows) ==
    \A i, j \in 1..Len(rows) : rows[i].symbol = rows[j].symbol => i = j

\* Every row of `before` is in `after` with the symbol it had.
SymbolsKept(after, before) ==
    /\ Len(after) >= Len(before)
    /\ \A i \in 1..Len(before) : after[i].symbol = before[i].symbol

NoTransactionAcrossEntities ==
    /\ ~connection.in_transaction
    /\ ~connection.begin_refused

\* A roster's plan was just rolled back and the loop of import_members has
\* another organization to process.
NextEntityAfterRollback ==
    /\ pc = "members_loop"
    /\ outcome.op = "import_members"
    /\ outcome.status = "rolled_back"
    /\ orgs_for_members # <<>>
    /\ connection = NoTransaction


\* A roster listed in the opposite order.
Reversed(roster) ==
    [i \in 1..Len(roster) |-> roster[Len(roster) + 1 - i]]

\* What the store holds once import_members has processed a retrieved roster
\* for an organization with no fault striking, generated ids and timestamps
\* left out: the Memberships by handle, and the set of rank-history rows.
FinalPersisted(api_members, org_id) ==
    LET steps == Reconciliation(api_members, org_id)
        committed == Transaction(steps, 0).committed
        member_rows == IF committed THEN steps.members ELSE members
        associations == IF committed THEN steps.member_organization
                        ELSE member_organization
        history == IF committed THEN steps.member_rank_history
                   ELSE member_rank_history
    IN [memberships |->
            {[symbol |-> HandleOf(member_rows, associations[i].member_id),
              organization_id |-> associations[i].organization_id,
              rank |-> associations[i].rank,
              is_active |-> associations[i].is_active] :
                 i \in 1..Len(associations)},
        rank_history |->
            {[symbol |-> HandleOf(member_rows, history[i].member_id),
              organization_id |-> history[i].organization_id,
              rank |-> history[i].rank] : i \in 1..Len(history)}]

\* C27: for a fixed store and a fixed fetched roster, the persisted
\* memberships, ranks and set of rank-history rows are the same whatever the
\* order in which the fetched members are listed: when import_members is
\* about to process an organization, every roster and the same roster listed
\* in the opposite order leave the same store.
RosterOrderIrrelevant ==
    pc = "members_loop" /\ orgs_for_members # <<>> =>
        \A roster \in Rosters :
            FinalPersisted(roster, Head(orgs_for_members))
                = FinalPersisted(Reversed(roster), Head(orgs_for_members))


\* C28: whenever import_members begins processing an organization, its
\* handle map all_member_symbols equals the handle-to-id mapping of the
\* committed members table, also after the transaction of an earlier
\* organization of the same cycle was rolled back.
HandleMapMatchesMembers ==
    pc = "members_loop" /\ orgs_for_members # <<>> =>
        all_member_symbols = get_all_member_symbols


\* The ids of the active organizations flagged stale (members_updated = 0).
FlaggedStale(rows) ==
    {i \in 1..Len(rows) : rows[i].is_active /\ ~rows[i].members_updated}

\* C29: in RefreshRosters every active organization flagged stale when the
\* phase starts has its roster fetch attempted exactly once, in ascending id
\* order, and its flag is cleared (members_updated = 1) if and only if its
\* roster plan was committed. The phase starts with exactly the flagged
\* active ids, in strictly ascending order, to process; each pass of the loop
\* attempts the fetch for the first of them, takes it off the list, leaves
\* it flagged unless its plan was committed and leaves every other flag as
\* it was; and the phase returns only when none is left.
StaleRostersFetchedOnce ==
    /\ [][pc = "import_members" /\ pc' = "members_loop" =>
            /\ \A i, j \in 1..Len(orgs_for_members') :
                   i < j => orgs_for_members'[i] < orgs_for_members'[j]
            /\ {orgs_for_members'[i] : i \in 1..Len(orgs_for_members')}
                   = FlaggedStale(organizations)]_vars
    /\ [][pc = "members_loop" /\ pc' = "members_loop" =>
            /\ orgs_for_members # <<>>
            /\ orgs_for_members' = Tail(orgs_for_members)
            /\ outcome'.op = "import_members"
            /\ outcome'.symbol = organizations[Head(orgs_for_members)].symbol
            /\ outcome'.status \in {"skipped", "rolled_back", "committed"}
            /\ ~organizations[Head(orgs_for_members)].members_updated
            /\ organizations'[Head(orgs_for_members)].members_updated
                   <=> outcome'.status = "committed"
            /\ \A i \in 1..Len(organizations) :
                   i # Head(orgs_for_members) =>
                       organizations'[i].members_updated
                           = organizations[i].members_updated]_vars
    /\ [][pc = "members_loop" /\ pc' = "reset_members_updated_flag" =>
            orgs_for_members = <<>>]_vars

\* The phase has processed both organizations: the roster of ABC could not
\* be reconciled and ABC is still flagged, the plan of XYZ was committed and
\* its flag is cleared.
OneFlagClearedOneKept ==
    /\ pc = "members_loop"
    /\ orgs_for_members = <<>>
    /\ Len(organizations) = 2
    /\ ~organizations[1].members_updated
    /\ organizations[2].members_updated
    /\ outcome.symbol = "XYZ"
    /\ outcome.status = "committed"



\* The ids of the Member rows that carry a handle.
IdsOf(rows, symbol) == {i \in 1..Len(rows) : rows[i].symbol = symbol}

\* C30: for each handle of the fetched roster with no active Membership to
\* the organization, whether the member is unseen or already known, a
\* committed reconciliation adds exactly one active Membership with the
\* fetched rank and left_at null, and exactly one member_rank_history row
\* with that rank.
NewHandleGetsOneMembership ==
    [][(LoopStep /\ pc' = "members_loop" /\ outcome'.status = "committed") =>
          \A h \in Fetched(result') :
              h \notin ActiveHandles(member_organization, members,
                                     Head(orgs_for_members)) =>
                  \E m \in IdsOf(members', h) :
                      /\ \E i \in (Len(member_organization) + 1)
                                      ..Len(member_organization') :
                            /\ Memberships(member_organization', m,
                                           Head(orgs_for_members), TRUE) = {i}
                            /\ member_organization'[i].rank \in result'.ranks[h]
                            /\ member_organization'[i].left_at = NULL
                      /\ \E k \in 1..Len(member_rank_history') :
                            /\ AddedRankHistory(member_rank_history,
                                                member_rank_history', m,
                                                Head(orgs_for_members)) = {k}
                            /\ member_rank_history'[k].rank
                                   = member_organization'[
                                         CHOOSE i \in Memberships(
                                             member_organization', m,
                                             Head(orgs_for_members), TRUE) :
                                                 TRUE].rank]_vars


\* C31: after save_organization(s) returns, the persisted organization with
\* symbol s.symbol has every mutable attribute equal to the value in s, and
\* the persisted state of every organization with another symbol is
\* unchanged: each such row is as it was, and the only row the call may add
\* carries s.symbol.
SaveStoresSnapshot ==
    [][(SaveStep /\ outcome'.status = "returned") =>
          /\ Persisted(organizations', org'.symbol) # 0
          /\ \A i \in 1..Len(organizations') :
                organizations'[i].symbol = org'.symbol =>
                    \A f \in FieldSet :
                        organizations'[i].attrs[f] = org'.attrs[f]
          /\ Len(organizations') >= Len(organizations)
          /\ \A i \in 1..Len(organizations') :
                organizations'[i].symbol # org'.symbol =>
                    /\ i <= Len(organizations)
                    /\ organizations'[i] = organizations[i]]_vars

\* A save just overwrote the name and the member count of ABC while XYZ is
\* persisted too.
SeveralAttributesOverwritten ==
    /\ outcome.op = "save_organization"
    /\ outcome.status = "returned"
    /\ outcome.history_rows = 1
    /\ org = [symbol |-> "ABC",
              attrs |-> [BaseAttrs EXCEPT !["name"] = "55",
                                          !["member_count"] = "55"]]
    /\ Persisted(organizations, "XYZ") # 0
    /\ Persisted(organizations, "ABC") # 0
    /\ organizations[Persisted(organizations, "ABC")].attrs = org.attrs
    /\ organization_history[Len(organization_history)].change_description
           # <<<<"Organization created">>>>


\* C32: in every reachable state a Membership row is active if and only if
\* its left_at is null.
ActiveIffNotLeft ==
    \A i \in 1..Len(member_organization) :
        member_organization[i].is_active
            <=> member_organization[i].left_at = NULL

\* A member left an organization and joined it again: the row of the earlier
\* tenure is inactive with its left_at set, the row of the new one is active.
LeftAndJoinedAgain ==
    \E i, j \in 1..Len(member_organization) :
        /\ member_organization[i].member_id = member_organization[j].member_id
        /\ member_organization[i].organization_id
               = member_organization[j].organization_id
        /\ ~member_organization[i].is_active
        /\ member_organization[i].left_at # NULL
        /\ member_organization[j].is_active
        /\ member_organization[j].left_at = NULL


\* C33: in DiscoverEntities every configured sort order is swept starting at
\* page 1; the sweep of a sort order ends at the first page that yields no
\* organization, a failed request and an empty page alike, or after the last
\* page, and the next sort order then starts at page 1; every organization
\* of a page that was retrieved is passed to save_organization before the
\* next page is requested; and import_organizations returns only when the
\* last sort order has been swept.
EverySortOrderSwept ==
    /\ [](/\ sweep.sort \in 1..(Len(sort_methods) + 1)
          /\ sweep.page \in 1..MaxPage)
    /\ [][(pc' = "import_organizations"
             /\ (pc # "import_organizations" \/ ~ControllerStep))
          => sweep' = NoSweep]_vars
    /\ [][(ControllerStep /\ pc = "import_organizations" /\ pc' = pc
             /\ sweep.orgs = <<>>)
          => \/ /\ sweep'.orgs # <<>>
                /\ sweep'.sort = sweep.sort
                /\ sweep'.page = sweep.page
                /\ UNCHANGED store
             \/ /\ sweep'.orgs = <<>>
                /\ sweep'.sort = sweep.sort + 1
                /\ sweep'.page = 1
                /\ sweep'.ended \in {"failed", "empty"}
                /\ UNCHANGED store]_vars
    /\ [][(ControllerStep /\ pc = "import_organizations"
             /\ sweep.orgs # <<>>)
          => /\ pc' = pc
             /\ outcome'.op = "save_organization"
             /\ org' = Head(sweep.orgs)
             /\ sweep'.orgs = Tail(sweep.orgs)
             /\ IF Len(sweep.orgs) > 1 \/ sweep.page < MaxPage
                THEN /\ sweep'.sort = sweep.sort
                     /\ sweep'.page
                            = IF Len(sweep.orgs) > 1 THEN sweep.page
                              ELSE sweep.page + 1
                ELSE /\ sweep'.sort = sweep.sort + 1
                     /\ sweep'.page = 1
                     /\ sweep'.ended = "last_page"]_vars
    /\ [][(pc = "import_organizations"
             /\ pc' = "update_existing_organizations")
          => /\ sweep.sort = Len(sort_methods) + 1
             /\ sweep.orgs = <<>>]_vars

\* Every sort order has been swept, the last one up to its last page, and
\* two organizations were saved on the way.
LastSortOrderSweptToLastPage ==
    /\ pc = "import_organizations"
    /\ sweep.sort = Len(sort_methods) + 1
    /\ sweep.ended = "last_page"
    /\ Len(organizations) = 2


\* C34: in RefreshStaleEntities, refreshing a stale organization E changes
\* the persisted state of E only: when the pass for E saves a snapshot, the
\* snapshot carries the symbol of E, last_updated of E is advanced to the
\* current time, and no organization with another symbol is created or
\* modified.
RefreshChangesOnlyItsOrganization ==
    [][(pc = "update_loop" /\ pc' = "update_loop"
          /\ outcome'.op = "save_organization"
          /\ outcome'.status = "returned")
       => /\ org'.symbol = organizations[Head(orgs_to_update)].symbol
          /\ organizations'[Head(orgs_to_update)].last_updated = now
          /\ Len(organizations') = Len(organizations)
          /\ \A i \in 1..Len(organizations) :
                i # Head(orgs_to_update) =>
                    organizations'[i] = organizations[i]]_vars


\* C35: when the source reports the organization as invalid
\* (ErrInvalidOrganization), the roster is handled as a successfully fetched
\* empty roster: unless an error of the store strikes, the pass commits,
\* no Membership of the organization is active afterwards and its flag is
\* cleared (members_updated = 1).
InvalidOrganizationEmptiesRoster ==
    [][(LoopStep /\ pc' = "members_loop"
          /\ outcome'.op = "import_members"
          /\ result'.ok /\ Fetched(result') = {} /\ ~result'.page_errors
          /\ outcome'.error # "fault")
       => /\ outcome'.status = "committed"
          /\ ActiveRows(member_organization', Head(orgs_for_members)) = {}
          /\ organizations'[Head(orgs_for_members)].members_updated]_vars


\* C36: in every reachable state every member_organization row and every
\* member_rank_history row refers to a member id that exists in members and
\* to an existing organization, also after the transaction of an earlier
\* organization of the same cycle was rolled back.
ReferencesExist ==
    /\ \A i \in 1..Len(member_organization) :
          /\ member_organization[i].member_id \in 1..Len(members)
          /\ member_organization[i].organization_id \in 1..Len(organizations)
    /\ \A i \in 1..Len(member_rank_history) :
          /\ member_rank_history[i].member_id \in 1..Len(members)
          /\ member_rank_history[i].organization_id \in 1..Len(organizations)


\* The rank-history rows of a member in an organization.
RankHistoryOf(member_id, org_id) ==
    {k \in 1..Len(member_rank_history) :
        /\ member_rank_history[k].member_id = member_id
        /\ member_rank_history[k].organization_id = org_id}

\* C37: in every reachable state, for every active Membership the most
\* recent member_rank_history row of its member and organization exists and
\* carries the rank of the Membership.
LatestRankHistoryMatchesMembership ==
    \A i \in 1..Len(member_organization) :
        member_organization[i].is_active =>
            LET rows == RankHistoryOf(member_organization[i].member_id,
                                      member_organization[i].organization_id)
            IN /\ rows # {}
               /\ member_rank_history[Max(rows)].rank
                      = member_organization[i].rank


\* The organization_history rows of an organization.
OrgHistoryOf(org_id) ==
    {k \in 1..Len(organization_history) :
        organization_history[k].organization_id = org_id}

\* C38: in every committed state, the most recent organization_history row
\* of each organization carries the nine attribute values of the organization
\* row itself, whatever saves, failed ones included, came before.
LatestHistoryMatchesOrganization ==
    \A org_id \in 1..Len(organizations) :
        /\ OrgHistoryOf(org_id) # {}
        /\ \A f \in FieldSet :
              organization_history[Max(OrgHistoryOf(org_id))].attrs[f]
                  = organizations[org_id].attrs[f]

\* C38 witness: a save of different attribute values has just failed for an
\* organization that an earlier save had already updated.
FailedSaveAfterUpdate ==
    /\ outcome.op = "save_organization"
    /\ outcome.status = "raised"
    /\ \E org_id \in 1..Len(organizations) :
          /\ organizations[org_id].symbol = org.symbol
          /\ organizations[org_id].attrs # org.attrs
          /\ organizations[org_id].attrs # BaseAttrs
          /\ Cardinality(OrgHistoryOf(org_id)) >= 2


\* The pass of the next cycle over the same organization: import_members
\* reads the handle map again (line 1262), then the active associations, and
\* builds and runs its plan as before.
NextCycleReconciliation(api_members, org_id) ==
    LET active_org_members == get_active_org_members_with_rank(org_id)
        plan == BuildPlan(EmptyPlan, api_members, 1, get_all_member_symbols,
                          active_org_members, org_id)
    IN TransactionSteps(plan, DepartingMemberIds(plan, active_org_members),
                        org_id)

\* This step is a pass of the loop of import_members that reconciled the
\* organization with the whole roster api_members and committed.
CommittedPassOf(api_members, org_id) ==
    /\ pc = "members_loop"
    /\ pc' = "members_loop"
    /\ orgs_for_members # <<>>
    /\ Head(orgs_for_members) = org_id
    /\ orgs_for_members' = Tail(orgs_for_members)
    /\ outcome'.op = "import_members"
    /\ outcome'.status = "committed"
    /\ result' = ResultOf(api_members, {})
    /\ members' = Reconciliation(api_members, org_id).members
    /\ member_organization'
           = Reconciliation(api_members, org_id).member_organization
    /\ member_rank_history'
           = Reconciliation(api_members, org_id).member_rank_history

\* A reconciliation that changes nothing: no association to insert, no rank
\* to update, no rank-history row to append, no departure to mark, and the
\* two tables left as they are.
ChangesNoMembership(steps, rows, history) ==
    /\ ~steps.touches[3]
    /\ ~steps.touches[4]
    /\ ~steps.touches[5]
    /\ ~steps.touches[6]
    /\ steps.member_organization = rows
    /\ steps.member_rank_history = history

\* C39: reconciling an organization a second time with the roster a
\* committed pass has just reconciled it with changes no membership and
\* appends no member_rank_history row.
ReconciliationIdempotent ==
    [][\A api_members \in Rosters : \A org_id \in 1..Len(organizations) :
          CommittedPassOf(api_members, org_id) =>
              ChangesNoMembership(NextCycleReconciliation(api_members, org_id)',
                                  member_organization', member_rank_history')]_vars

====
